---- MODULE Spec2Model ----
(***************************************************************************)
(* Verification model of the quantara route-resilience scoring pipeline    *)
(* (ml_module): the ResilienceCalculator, rescore_routes, the Time,        *)
(* Distance and Carbon analyzers and the route segmenter.                  *)
(*                                                                         *)
(* Numbers.  The Python code computes with floats; the model computes with *)
(* exact rationals <<n, d>> in lowest terms (d > 0), so that 0.25 is       *)
(* <<1, 4>> and two equal numbers are equal values.  Float rounding is     *)
(* abstracted; the inputs are chosen away from the places where rounding   *)
(* decides a comparison.                                                   *)
(*                                                                         *)
(* Dicts.  A Python dict is a TLA+ function whose DOMAIN is the dict's key *)
(* set, so a missing key is a key outside the DOMAIN and d.get(k, default) *)
(* is Get(d, k, default).                                                  *)
(***************************************************************************)
EXTENDS Integers, Sequences, FiniteSets, TLC

(***************************************************************************)
(* Exact rational arithmetic                                               *)
(***************************************************************************)
Abs(x) == IF x < 0 THEN -x ELSE x

RECURSIVE GCD(_, _)
GCD(a, b) == IF b = 0 THEN a ELSE GCD(b, a % b)

\* The rational n/d in lowest terms with a positive denominator (d # 0).
R(n, d) ==
    LET s == IF d < 0 THEN -1 ELSE 1
        g == GCD(Abs(n), Abs(d))
    IN  <<(s * n) \div g, (s * d) \div g>>

Zero == <<0, 1>>
One == <<1, 1>>
Hundred == <<100, 1>>

\* Sums and comparisons go through the least common denominator and products
\* cancel crosswise first, which keeps the intermediate integers small.
RAdd(a, b) ==
    LET g == GCD(a[2], b[2])
    IN  R(a[1] * (b[2] \div g) + b[1] * (a[2] \div g), (a[2] \div g) * b[2])
RNeg(a) == <<-a[1], a[2]>>
RSub(a, b) == RAdd(a, RNeg(b))
RMul(a, b) ==
    LET g1 == GCD(Abs(a[1]), b[2])
        g2 == GCD(Abs(b[1]), a[2])
    IN  IF a[1] = 0 \/ b[1] = 0 THEN <<0, 1>>
        ELSE R((a[1] \div g1) * (b[1] \div g2), (a[2] \div g2) * (b[2] \div g1))
RDiv(a, b) == RMul(a, IF b[1] < 0 THEN <<-b[2], -b[1]>> ELSE <<b[2], b[1]>>)
RLt(a, b) ==
    LET g == GCD(a[2], b[2])
    IN  a[1] * (b[2] \div g) < b[1] * (a[2] \div g)
RLe(a, b) ==
    LET g == GCD(a[2], b[2])
    IN  a[1] * (b[2] \div g) <= b[1] * (a[2] \div g)
RAbs(a) == <<Abs(a[1]), a[2]>>
RMax(a, b) == IF RLt(a, b) THEN b ELSE a
RMin(a, b) == IF RLt(b, a) THEN b ELSE a

\* sum(d.values()) of a dict of rationals
RECURSIVE RSumOver(_, _)
RSumOver(d, keys) ==
    IF keys = {} THEN Zero
    ELSE LET k == CHOOSE x \in keys : TRUE
         IN  RAdd(d[k], RSumOver(d, keys \ {k}))

RSumValues(d) == RSumOver(d, DOMAIN d)

(***************************************************************************)
(* Python dict and None                                                    *)
(***************************************************************************)
\* d.get(k, default)
Get(d, k, default) == IF k \in DOMAIN d THEN d[k] ELSE default

\* d[k] = v on a copy of d
Put(d, k, v) == [x \in (DOMAIN d) \cup {k} |-> IF x = k THEN v ELSE d[x]]

\* Python's None where a string or a mapping is expected.
None == "<None>"

\* A priorities argument that is None (JSON null) instead of a mapping.
NullPriorities == [null |-> TRUE]
IsMapping(p) == "null" \notin DOMAIN p

(***************************************************************************)
(* ResilienceCalculator.calculate                                          *)
(***************************************************************************)
EqualWeights ==
    [time |-> R(1, 4), distance |-> R(1, 4),
     carbon_emission |-> R(1, 4), road_quality |-> R(1, 4)]

\* The priorities after the normalisation step: an all-zero sum is replaced by
\* equal weights, and a sum further than 0.01 from 1.0 divides every weight.
NormalizeZeroKept(p) ==
    LET total == RSumValues(p)
    IN  IF total = Zero THEN p
        ELSE IF RLt(R(1, 100), RAbs(RSub(total, One)))
             THEN [k \in DOMAIN p |-> RDiv(p[k], total)]
             ELSE p

normalize_priorities(p) ==
    CHOOSE n \in {
        LET p1 == IF total = Zero THEN EqualWeights ELSE p
            total1 == IF total = Zero THEN One ELSE total
        IN  IF RLt(R(1, 100), RAbs(RSub(total1, One)))
            THEN [k \in DOMAIN p1 |-> RDiv(p1[k], total1)]
            ELSE p1 :
        total \in {RSumValues(p)}} : TRUE

\* time_priority, distance_priority, carbon_priority, road_priority: the four
\* weights multiplied with the component scores.
priority_values(p) ==
    CHOOSE w \in {
        [time |-> Get(n, "time", R(1, 4)),
         distance |-> Get(n, "distance", R(1, 4)),
         carbon |-> Get(n, "carbon_emission", R(1, 4)),
         road_quality |-> Get(n, "road_quality", R(1, 4))] :
        n \in {normalize_priorities(p)}} : TRUE

\* The default of a component score missing from its mapping.
DefaultScoreZero == Zero
DefaultScore == R(1, 2)

\* max(0.0, min(100.0, x))
Clamp100(x) == RMax(Zero, RMin(Hundred, x))

\* One pass of the loop over the routes: the result of one route.
route_result(route_name, time_scores, distance_scores, carbon_scores, road_quality_scores, w) ==
    LET time_score == Get(time_scores, route_name, DefaultScore)
        distance_score == Get(distance_scores, route_name, DefaultScore)
        carbon_score == Get(carbon_scores, route_name, DefaultScore)
        road_quality_score == Get(road_quality_scores, route_name, DefaultScore)
        time_contribution == RMul(w.time, time_score)
        distance_contribution == RMul(w.distance, distance_score)
        carbon_contribution == RMul(w.carbon, carbon_score)
        road_contribution == RMul(w.road_quality, road_quality_score)
        resilience_score ==
            RAdd(RAdd(RAdd(time_contribution, distance_contribution),
                      carbon_contribution), road_contribution)
    IN  [route_name |-> route_name,
         overall_resilience_score |-> Clamp100(RMul(resilience_score, Hundred)),
         component_scores |->
            [time_score |-> time_score,
             distance_score |-> distance_score,
             carbon_score |-> carbon_score,
             road_quality_score |-> road_quality_score],
         weighted_contributions |->
            [time |-> time_contribution,
             distance |-> distance_contribution,
             carbon |-> carbon_contribution,
             road_quality |-> road_contribution]]

\* results.sort(key = overall_resilience_score, reverse = True): a stable sort,
\* so equal scores keep their order.  Element i goes behind every element with
\* a greater score and every earlier element with an equal score.
\* The 1-based place of element i after the sort.
sort_position(s, i) ==
    1 + Cardinality({j \in 1..Len(s) :
            \/ RLt(s[i].overall_resilience_score, s[j].overall_resilience_score)
            \/ /\ s[j].overall_resilience_score = s[i].overall_resilience_score
               /\ j < i})

\* Sorted ascending and then reversed: equal scores end up in reverse order.
SortReversedAscending(s) ==
    LET pos(i) == 1 + Cardinality({j \in 1..Len(s) :
            \/ RLt(s[i].overall_resilience_score, s[j].overall_resilience_score)
            \/ /\ s[j].overall_resilience_score = s[i].overall_resilience_score
               /\ j > i})
    IN  [k \in 1..Len(s) |-> s[CHOOSE i \in 1..Len(s) : pos(i) = k]]

sort_by_score_desc(s) ==
    [k \in 1..Len(s) |-> s[CHOOSE i \in 1..Len(s) : sort_position(s, i) = k]]

\* (The set constructors over one-element sets bind w and results to their
\* values once, where a LET would evaluate them again at every use.)
calculate(routes, time_scores, distance_scores, carbon_scores, road_quality_scores, p) ==
    CHOOSE sorted \in UNION {{
        sort_by_score_desc(results) :
            results \in {[i \in 1..Len(routes) |->
                             route_result(routes[i], time_scores, distance_scores,
                                          carbon_scores, road_quality_scores, w)]}} :
            w \in {priority_values(p)}} : TRUE

(***************************************************************************)
(* ResilienceCalculator.format_results                                     *)
(***************************************************************************)
Threshold == R(4, 5)

ExceedsOrEquals(score) == RLe(Threshold, score)
Exceeds(score) == RLt(Threshold, score)

\* reason_parts: the phrases of the dimensions above 0.8, in the order of the
\* four if statements.
reason_parts(c) ==
    (IF Exceeds(c.time_score) THEN <<"excellent time efficiency">> ELSE <<>>)
    \o (IF Exceeds(c.distance_score) THEN <<"shortest distance">> ELSE <<>>)
    \o (IF Exceeds(c.carbon_score) THEN <<"lowest carbon emissions">> ELSE <<>>)
    \o (IF Exceeds(c.road_quality_score) THEN <<"superior road conditions">> ELSE <<>>)

\* reason_for_selection is a string; the model keeps its pieces: the fixed
\* text and the phrases that ', '.join() puts behind it.
Reason(text, parts) == [text |-> text, parts |-> parts]

best_route(results) == results[1]

format_results(resilience_results) ==
    IF resilience_results = <<>>
    THEN [routes |-> <<>>,
          ranked_routes |-> <<>>,
          best_route_name |-> None,
          reason_for_selection |-> Reason("No routes available", <<>>)]
    ELSE LET best == best_route(resilience_results)
             parts == reason_parts(best.component_scores)
         IN  [routes |-> resilience_results,
              ranked_routes |->
                 [i \in 1..Len(resilience_results) |-> resilience_results[i].route_name],
              best_route_name |-> best.route_name,
              reason_for_selection |->
                 IF parts = <<>>
                 THEN Reason("Best overall balance of all factors", <<>>)
                 ELSE Reason("Best route due to: ", parts)]

(***************************************************************************)
(* rescore_routes                                                          *)
(***************************************************************************)
\* The services outside the scoring core.  A call trace lists, in order, every
\* component a function calls on the path it takes.
Collaborators == {"routing", "weather", "road_network", "news", "llm"}

\* The last route of routes_data with the given name (a later assignment to
\* the same dict key overwrites an earlier one).
route_named(routes_data, name) ==
    LET idx == {i \in 1..Len(routes_data) : Get(routes_data[i], "route_name", "Unknown") = name}
    IN  routes_data[CHOOSE i \in idx : \A j \in idx : j <= i]

\* [route.get("route_name", "Unknown") for route in routes_data]
route_names(routes_data) ==
    [i \in 1..Len(routes_data) |-> Get(routes_data[i], "route_name", "Unknown")]

\* The mapping name -> route.get(key, 0.5) that the extraction loop builds.
StoredScoresDefaultZero(routes_data, key) ==
    [name \in {route_names(routes_data)[i] : i \in 1..Len(routes_data)} |->
        Get(route_named(routes_data, name), key, Zero)]

stored_scores(routes_data, key) ==
    [name \in {route_names(routes_data)[i] : i \in 1..Len(routes_data)} |->
        Get(route_named(routes_data, name), key, R(1, 2))]

\* {r["route_name"]: r for r in resilience_results}
resilience_lookup(resilience_results) ==
    [name \in {resilience_results[i].route_name : i \in 1..Len(resilience_results)} |->
        resilience_results[CHOOSE i \in 1..Len(resilience_results) :
            /\ resilience_results[i].route_name = name
            /\ \A j \in 1..Len(resilience_results) :
                  resilience_results[j].route_name = name => j <= i]]

\* One pass of the update loop on one route: route.copy() with the three keys
\* set.
updated_route(route, lookup) ==
    LET resilience_data == lookup[Get(route, "route_name", "Unknown")]
    IN  Put(Put(Put(route,
            "overall_resilience_score", resilience_data.overall_resilience_score),
            "component_scores", resilience_data.component_scores),
            "weighted_contributions", resilience_data.weighted_contributions)

\* The update loop.  It writes to copies, so the caller's list and its route
\* mappings are as before (input), and the copies are returned (updated).
UpdateInPlace(routes_data, lookup) ==
    LET upd == [i \in 1..Len(routes_data) |-> updated_route(routes_data[i], lookup)]
    IN  [input |-> upd, updated |-> upd]

UpdateOverwritingStored(routes_data, lookup) ==
    LET upd == [i \in 1..Len(routes_data) |->
                   LET u == updated_route(routes_data[i], lookup)
                   IN  Put(u, "time_score", u.weighted_contributions.time)]
    IN  [input |-> routes_data, updated |-> upd]

update_routes(routes_data, lookup) ==
    [input |-> routes_data,
     updated |-> [i \in 1..Len(routes_data) |-> updated_route(routes_data[i], lookup)]]

\* The components called on a path of rescore_routes that reaches the
\* calculator: calculate, and format_results when calculate returned.
RescoreCallsRefetching(calculated) ==
    <<"routing", "ResilienceCalculator.calculate">>
    \o (IF calculated THEN <<"ResilienceCalculator.format_results">> ELSE <<>>)

rescore_calls(calculated) ==
    <<"ResilienceCalculator.calculate">>
    \o (IF calculated THEN <<"ResilienceCalculator.format_results">> ELSE <<>>)

\* rescore_routes(routes_data, priorities).  result is the returned mapping,
\* routes_data the caller's list after the call, calls the call trace.
rescore_routes(routes_data, p) ==
    IF routes_data = <<>>
    THEN [result |-> [error |-> "No routes data provided",
                      routes |-> <<>>,
                      resilience_scores |-> None,
                      analysis_complete |-> FALSE],
          routes_data |-> routes_data,
          calls |-> <<>>]
    ELSE IF ~IsMapping(p)
    THEN \* priorities.values() raises inside calculate; the except branch
         \* returns the caller's routes.
         [result |-> [error |-> "'NoneType' object has no attribute 'values'",
                      routes |-> routes_data,
                      resilience_scores |-> None,
                      analysis_complete |-> FALSE],
          routes_data |-> routes_data,
          calls |-> rescore_calls(FALSE)]
    ELSE \* (one-element sets bind resilience_results and upd once)
         CHOOSE out \in UNION {{
             [result |-> [routes |-> upd.updated,
                          resilience_scores |-> format_results(resilience_results),
                          analysis_complete |-> TRUE],
              routes_data |-> upd.input,
              calls |-> rescore_calls(TRUE)] :
             upd \in {update_routes(routes_data, resilience_lookup(resilience_results))}} :
             resilience_results \in {calculate(route_names(routes_data),
                           stored_scores(routes_data, "time_score"),
                           stored_scores(routes_data, "distance_score"),
                           stored_scores(routes_data, "carbon_score"),
                           stored_scores(routes_data, "road_quality_score"),
                           p)}} : TRUE

(***************************************************************************)
(* TimeAnalyzer, DistanceAnalyzer, CarbonAnalyzer                          *)
(*                                                                         *)
(* Durations are whole seconds and distances whole metres.  The formatted  *)
(* texts (duration_text, distance_text) are left out of the results.       *)
(***************************************************************************)
Int2R(n) == <<n, 1>>

\* max(0.0, min(1.0, x))
clamp_unit(x) == RMax(Zero, RMin(One, x))

\* min() and max() of a non-empty list of rationals
RMinOf(values) == CHOOSE v \in {values[i] : i \in 1..Len(values)} :
                      \A i \in 1..Len(values) : RLe(v, values[i])
RMaxOf(values) == CHOOSE v \in {values[i] : i \in 1..Len(values)} :
                      \A i \in 1..Len(values) : RLe(values[i], v)

\* TimeAnalyzer: the score of one duration between time_min and time_max.
time_score(duration_s, time_min, time_max) ==
    clamp_unit(IF time_max = time_min THEN One
               ELSE RSub(One, RDiv(RSub(duration_s, time_min), RSub(time_max, time_min))))

\* TimeAnalyzer.analyze(routes)
analyze_time(routes) ==
    IF routes = <<>> THEN <<>>
    ELSE CHOOSE out \in {
        [i \in 1..Len(routes) |->
            [route_name |-> Get(routes[i], "route_name", "Unknown"),
             duration_s |-> durations[i],
             time_score |-> time_score(durations[i], RMinOf(durations), RMaxOf(durations))]] :
        durations \in {[i \in 1..Len(routes) |-> Get(routes[i], "duration_s", Zero)]}} : TRUE

\* DistanceAnalyzer: the score of one distance between dist_min and dist_max.
distance_score(distance_m, dist_min, dist_max) ==
    clamp_unit(IF dist_max = dist_min THEN One
               ELSE RSub(One, RDiv(RSub(distance_m, dist_min), RSub(dist_max, dist_min))))

\* DistanceAnalyzer.analyze(routes)
analyze_distance(routes) ==
    IF routes = <<>> THEN <<>>
    ELSE CHOOSE out \in {
        [i \in 1..Len(routes) |->
            [route_name |-> Get(routes[i], "route_name", "Unknown"),
             distance_m |-> distances[i],
             distance_km |-> RDiv(distances[i], Int2R(1000)),
             distance_score |-> distance_score(distances[i], RMinOf(distances), RMaxOf(distances))]] :
        distances \in {[i \in 1..Len(routes) |-> Get(routes[i], "distance_m", Zero)]}} : TRUE

EMISSION_FACTOR == R(8, 10)
LOAD_FACTOR == R(12, 10)
FUEL_CORRECTION == One

\* CarbonAnalyzer._calculate_carbon_emission(distance_km)
calculate_carbon_emission(distance_km) ==
    RMul(RMul(RMul(distance_km, EMISSION_FACTOR), LOAD_FACTOR), FUEL_CORRECTION)

\* sum(seg.get("length_m", 0) for seg in segments)
RECURSIVE sum_length_m(_)
sum_length_m(segments) ==
    IF segments = <<>> THEN Zero
    ELSE RAdd(Get(Head(segments), "length_m", Zero), sum_length_m(Tail(segments)))

\* The distance a route's emissions are computed from: the sum of its
\* road_segments when it has a non-empty list of them, else its distance_m.
TotalDistanceIgnoringSegments(route) == Get(route, "distance_m", Zero)

total_distance_m(route) ==
    IF "road_segments" \in DOMAIN route /\ route["road_segments"] # <<>>
    THEN sum_length_m(route["road_segments"])
    ELSE Get(route, "distance_m", Zero)

\* CarbonAnalyzer: the score of one emission between carbon_min and carbon_max.
CarbonScoreNotInverted(carbon_kg, carbon_min, carbon_max) ==
    clamp_unit(IF carbon_max = carbon_min THEN One
               ELSE RDiv(RSub(carbon_kg, carbon_min), RSub(carbon_max, carbon_min)))

carbon_score(carbon_kg, carbon_min, carbon_max) ==
    clamp_unit(IF carbon_max = carbon_min THEN One
               ELSE RSub(One, RDiv(RSub(carbon_kg, carbon_min), RSub(carbon_max, carbon_min))))

\* CarbonAnalyzer.analyze(routes)
analyze_carbon(routes) ==
    IF routes = <<>> THEN <<>>
    ELSE CHOOSE out \in {
        [i \in 1..Len(routes) |->
            [route_name |-> Get(routes[i], "route_name", "Unknown"),
             total_carbon_kg |-> carbon_emissions[i],
             carbon_score |-> carbon_score(carbon_emissions[i], RMinOf(carbon_emissions),
                                           RMaxOf(carbon_emissions)),
             carbon_per_km |->
                IF RLt(Zero, total_distance_m(routes[i]))
                THEN RDiv(carbon_emissions[i], RDiv(total_distance_m(routes[i]), Int2R(1000)))
                ELSE Zero]] :
        carbon_emissions \in {[i \in 1..Len(routes) |->
            calculate_carbon_emission(RDiv(total_distance_m(routes[i]), Int2R(1000)))]}} : TRUE

(***************************************************************************)
(* Segmenter                                                               *)
(*                                                                         *)
(* Coordinates are whole degrees on a small grid, and lengths are whole    *)
(* metres: haversine_distance is the table of the formula's values on the  *)
(* grid, rounded to the metre.                                             *)
(***************************************************************************)
EmptyDict == <<>>

GridPoints == {<<0, 0>>, <<0, 77>>, <<12, 0>>, <<12, 77>>, <<13, 78>>, <<28, 77>>}

\* haversine_distance of two different grid points, in either direction
HaversineTable(a, b) ==
    CASE {a, b} = {<<0, 0>>, <<0, 77>>} -> 8562009
      [] {a, b} = {<<0, 0>>, <<12, 0>>} -> 1334339
      [] {a, b} = {<<0, 0>>, <<12, 77>>} -> 8594133
      [] {a, b} = {<<0, 0>>, <<13, 78>>} -> 8707892
      [] {a, b} = {<<0, 77>>, <<12, 0>>} -> 8594133
      [] {a, b} = {<<0, 77>>, <<12, 77>>} -> 1334339
      [] {a, b} = {<<0, 77>>, <<13, 78>>} -> 1449731
      [] {a, b} = {<<12, 0>>, <<12, 77>>} -> 8342025
      [] {a, b} = {<<12, 0>>, <<13, 78>>} -> 8431082
      [] {a, b} = {<<12, 77>>, <<13, 78>>} -> 155400
      [] {a, b} = {<<0, 0>>, <<28, 77>>} -> 8733664
      [] {a, b} = {<<0, 77>>, <<28, 77>>} -> 3113458
      [] {a, b} = {<<12, 0>>, <<28, 77>>} -> 8120450
      [] {a, b} = {<<12, 77>>, <<28, 77>>} -> 1779119
      [] {a, b} = {<<13, 78>>, <<28, 77>>} -> 1671146

haversine_distance(lat1, lon1, lat2, lon2) ==
    IF <<lat1, lon1>> = <<lat2, lon2>> THEN 0
    ELSE HaversineTable(<<lat1, lon1>>, <<lat2, lon2>>)

\* The check on the four coordinates of a step, each read with default 0:
\* the step is skipped when any one of them is 0.
has_zero_coordinate(start_lat, start_lon, end_lat, end_lon) ==
    start_lat = 0 \/ start_lon = 0 \/ end_lat = 0 \/ end_lon = 0

\* Variants of one pass of the loop: one in which a skipped step uses up a
\* segment id, one in which max_length_m is the length of the last segment.
ExtractStepCountingSkipped(acc, step) ==
    LET start_loc == Get(step, "start_location", EmptyDict)
        end_loc == Get(step, "end_location", EmptyDict)
        start_lat == Get(start_loc, "lat", 0)
        start_lon == Get(start_loc, "lng", 0)
        end_lat == Get(end_loc, "lat", 0)
        end_lon == Get(end_loc, "lng", 0)
        length_m == haversine_distance(start_lat, start_lon, end_lat, end_lon)
    IN  IF \/ DOMAIN start_loc = {} \/ DOMAIN end_loc = {}
           \/ has_zero_coordinate(start_lat, start_lon, end_lat, end_lon)
        THEN [acc EXCEPT !.segment_id = @ + 1]
        ELSE [segments |-> Append(acc.segments,
                              [segment_id |-> acc.segment_id,
                               start |-> <<start_lat, start_lon>>,
                               end |-> <<end_lat, end_lon>>,
                               length_m |-> length_m]),
              segment_id |-> acc.segment_id + 1,
              max_length_m |-> IF acc.max_length_m < length_m THEN length_m
                               ELSE acc.max_length_m,
              min_length_m |-> IF acc.min_is_inf \/ length_m < acc.min_length_m
                               THEN length_m ELSE acc.min_length_m,
              min_is_inf |-> FALSE]

ExtractStepMaxIsLast(acc, step) ==
    LET start_loc == Get(step, "start_location", EmptyDict)
        end_loc == Get(step, "end_location", EmptyDict)
        start_lat == Get(start_loc, "lat", 0)
        start_lon == Get(start_loc, "lng", 0)
        end_lat == Get(end_loc, "lat", 0)
        end_lon == Get(end_loc, "lng", 0)
        length_m == haversine_distance(start_lat, start_lon, end_lat, end_lon)
    IN  IF \/ DOMAIN start_loc = {} \/ DOMAIN end_loc = {}
           \/ has_zero_coordinate(start_lat, start_lon, end_lat, end_lon)
        THEN acc
        ELSE [segments |-> Append(acc.segments,
                              [segment_id |-> acc.segment_id,
                               start |-> <<start_lat, start_lon>>,
                               end |-> <<end_lat, end_lon>>,
                               length_m |-> length_m]),
              segment_id |-> acc.segment_id + 1,
              max_length_m |-> length_m,
              min_length_m |-> IF acc.min_is_inf \/ length_m < acc.min_length_m
                               THEN length_m ELSE acc.min_length_m,
              min_is_inf |-> FALSE]

\* One pass of the loop over the steps.  acc holds the loop's variables;
\* min_is_inf says that min_length_m is still float('inf').
extract_step(acc, step) ==
    LET start_loc == Get(step, "start_location", EmptyDict)
        end_loc == Get(step, "end_location", EmptyDict)
        start_lat == Get(start_loc, "lat", 0)
        start_lon == Get(start_loc, "lng", 0)
        end_lat == Get(end_loc, "lat", 0)
        end_lon == Get(end_loc, "lng", 0)
        length_m == haversine_distance(start_lat, start_lon, end_lat, end_lon)
    IN  IF DOMAIN start_loc = {} \/ DOMAIN end_loc = {} THEN acc
        ELSE IF has_zero_coordinate(start_lat, start_lon, end_lat, end_lon) THEN acc
        ELSE [segments |-> Append(acc.segments,
                              [segment_id |-> acc.segment_id,
                               start |-> <<start_lat, start_lon>>,
                               end |-> <<end_lat, end_lon>>,
                               length_m |-> length_m]),
              segment_id |-> acc.segment_id + 1,
              max_length_m |-> IF acc.max_length_m < length_m THEN length_m
                               ELSE acc.max_length_m,
              min_length_m |-> IF acc.min_is_inf \/ length_m < acc.min_length_m
                               THEN length_m ELSE acc.min_length_m,
              min_is_inf |-> FALSE]

RECURSIVE extract_loop(_, _)
extract_loop(acc, steps) ==
    IF steps = <<>> THEN acc
    ELSE extract_loop(extract_step(acc, Head(steps)), Tail(steps))

\* extract_segments(route): the segments, max_length_m and min_length_m.
extract_segments(route) ==
    LET steps == Get(route, "steps", <<>>)
    IN  IF steps = <<>>
        THEN [segments |-> <<>>, max_length_m |-> 0, min_length_m |-> 0]
        ELSE CHOOSE out \in {
            IF acc.segments = <<>>
            THEN [segments |-> <<>>, max_length_m |-> 0, min_length_m |-> 0]
            ELSE [segments |-> acc.segments,
                  max_length_m |-> acc.max_length_m,
                  min_length_m |-> IF acc.min_is_inf THEN acc.max_length_m
                                   ELSE acc.min_length_m] :
            acc \in {extract_loop([segments |-> <<>>, segment_id |-> 0,
                                   max_length_m |-> 0, min_length_m |-> 0,
                                   min_is_inf |-> TRUE], steps)}} : TRUE

(***************************************************************************)
(* Python floats: IEEE 754 binary64, round to nearest, ties to even        *)
(***************************************************************************)
\* Natural numbers of any size: the limbs in base 2^15, lowest first, no
\* high zero limb; <<>> is 0.
Base == 32768

RECURSIVE Pow2(_)
Pow2(k) == IF k = 0 THEN 1 ELSE 2 * Pow2(k - 1)

Limb(a, i) == IF i <= Len(a) THEN a[i] ELSE 0

RECURSIVE Trim(_)
Trim(a) == IF a # <<>> /\ a[Len(a)] = 0 THEN Trim(SubSeq(a, 1, Len(a) - 1)) ELSE a

RECURSIVE FromNat(_)
FromNat(n) == IF n = 0 THEN <<>> ELSE <<n % Base>> \o FromNat(n \div Base)

RECURSIVE BAddFrom(_, _, _, _)
BAddFrom(a, b, i, carry) ==
    IF i > Len(a) /\ i > Len(b)
    THEN IF carry = 0 THEN <<>> ELSE <<carry>>
    ELSE <<(Limb(a, i) + Limb(b, i) + carry) % Base>>
         \o BAddFrom(a, b, i + 1, (Limb(a, i) + Limb(b, i) + carry) \div Base)

BAdd(a, b) == BAddFrom(a, b, 1, 0)

\* a - b for a >= b
RECURSIVE BSubFrom(_, _, _, _)
BSubFrom(a, b, i, borrow) ==
    IF i > Len(a) THEN <<>>
    ELSE <<(a[i] - Limb(b, i) - borrow + Base) % Base>>
         \o BSubFrom(a, b, i + 1, IF a[i] - Limb(b, i) - borrow < 0 THEN 1 ELSE 0)

BSub(a, b) == Trim(BSubFrom(a, b, 1, 0))

\* -1, 0 or 1 as a is below, equal to or above b, from limb i down
RECURSIVE BCmpFrom(_, _, _)
BCmpFrom(a, b, i) ==
    IF i = 0 THEN 0
    ELSE IF a[i] < b[i] THEN -1
    ELSE IF a[i] > b[i] THEN 1
    ELSE BCmpFrom(a, b, i - 1)

BCmp(a, b) ==
    IF Len(a) < Len(b) THEN -1
    ELSE IF Len(a) > Len(b) THEN 1
    ELSE BCmpFrom(a, b, Len(a))

\* a * k for 0 <= k < Base
RECURSIVE BMulSmallFrom(_, _, _, _)
BMulSmallFrom(a, k, i, carry) ==
    IF i > Len(a)
    THEN IF carry = 0 THEN <<>> ELSE <<carry>>
    ELSE <<(a[i] * k + carry) % Base>>
         \o BMulSmallFrom(a, k, i + 1, (a[i] * k + carry) \div Base)

BMulSmall(a, k) == IF k = 0 THEN <<>> ELSE BMulSmallFrom(a, k, 1, 0)

\* a * Base^n
BShiftLimbs(a, n) == IF a = <<>> THEN <<>> ELSE [i \in 1..n |-> 0] \o a

RECURSIVE BMulFrom(_, _, _)
BMulFrom(a, b, j) ==
    IF j > Len(b) THEN <<>>
    ELSE BAdd(BShiftLimbs(BMulSmall(a, b[j]), j - 1), BMulFrom(a, b, j + 1))

BMul(a, b) == BMulFrom(a, b, 1)

\* a * 2^k
BShl(a, k) == BShiftLimbs(BMulSmall(a, Pow2(k % 15)), k \div 15)

\* a divided by d for 0 < d < Base, from limb i down with remainder r: the
\* quotient's limbs (lowest first) and the remainder
RECURSIVE BDivSmallFrom(_, _, _, _)
BDivSmallFrom(a, d, i, r) ==
    IF i = 0 THEN [q |-> <<>>, r |-> r]
    ELSE [q |-> BDivSmallFrom(a, d, i - 1, (r * Base + a[i]) % d).q
                    \o <<(r * Base + a[i]) \div d>>,
          r |-> BDivSmallFrom(a, d, i - 1, (r * Base + a[i]) % d).r]

BDivSmall(a, d) == [q |-> Trim(BDivSmallFrom(a, d, Len(a), 0).q),
                    r |-> BDivSmallFrom(a, d, Len(a), 0).r]

\* a divided by 2^k: the quotient, and whether bits were lost
BShr(a, k) ==
    [q |-> BDivSmall(SubSeq(a, (k \div 15) + 1, Len(a)), Pow2(k % 15)).q,
     lost |-> \/ BDivSmall(SubSeq(a, (k \div 15) + 1, Len(a)), Pow2(k % 15)).r # 0
              \/ \E i \in 1..(k \div 15) : Limb(a, i) # 0]

RECURSIVE BitsOf(_)
BitsOf(n) == IF n = 0 THEN 0 ELSE 1 + BitsOf(n \div 2)

BitLen(a) == IF a = <<>> THEN 0 ELSE 15 * (Len(a) - 1) + BitsOf(a[Len(a)])

\* the number of low zero bits of a # 0
RECURSIVE LowZeros(_)
LowZeros(n) == IF n % 2 = 1 THEN 0 ELSE 1 + LowZeros(n \div 2)

RECURSIVE BLowZerosFrom(_, _)
BLowZerosFrom(a, i) ==
    IF a[i] = 0 THEN 15 + BLowZerosFrom(a, i + 1) ELSE LowZeros(a[i])

\* floor(r * 32^n / b) for r < b, five bits at a time: the quotient (after
\* the digits q) and the remainder
RECURSIVE BDivDigits(_, _, _, _)
BDivDigits(r, b, n, q) ==
    IF n = 0 THEN [q |-> q, r |-> r]
    ELSE LET d == CHOOSE d \in 0..31 :
                    /\ BCmp(BMulSmall(b, d), BMulSmall(r, 32)) <= 0
                    /\ BCmp(BMulSmall(b, d + 1), BMulSmall(r, 32)) > 0
         IN  BDivDigits(BSub(BMulSmall(r, 32), BMulSmall(b, d)), b, n - 1,
                        BAdd(BMulSmall(q, 32), FromNat(d)))

\* A float: (-1)^neg * m * 2^e with m odd, or m = 0 and e = 0.
FZero == [neg |-> FALSE, m |-> <<>>, e |-> 0]

\* m * 2^e with the low zero bits of m moved into the exponent
FCanon(neg, m, e) ==
    IF m = <<>> THEN FZero
    ELSE [neg |-> neg, m |-> BShr(m, BLowZerosFrom(m, 1)).q, e |-> e + BLowZerosFrom(m, 1)]

\* The float nearest to m * 2^e (plus a fraction of the last bit if sticky):
\* 53 significant bits are kept, a tie goes to the even neighbour.
FRoundTo54(neg, q54, lost, e) ==
    IF q54[1] % 2 = 1 /\ (lost \/ (q54[1] \div 2) % 2 = 1)
    THEN FCanon(neg, BAdd(BShr(q54, 1).q, <<1>>), e)
    ELSE FCanon(neg, BShr(q54, 1).q, e)

FRound(neg, m, e, sticky) ==
    IF BitLen(m) <= 53 THEN FCanon(neg, m, e)
    ELSE FRoundTo54(neg, BShr(m, BitLen(m) - 54).q,
                    sticky \/ BShr(m, BitLen(m) - 54).lost, e + BitLen(m) - 53)

\* float(n) for an int n
FromInt(n) == FCanon(n < 0, FromNat(IF n < 0 THEN -n ELSE n), 0)

FNeg(a) == IF a.m = <<>> THEN a ELSE [a EXCEPT !.neg = ~a.neg]

\* a + b of magnitudes ma, mb scaled to the exponent e
FAddAligned(a_neg, ma, b_neg, mb, e) ==
    IF a_neg = b_neg THEN FRound(a_neg, BAdd(ma, mb), e, FALSE)
    ELSE IF BCmp(ma, mb) >= 0 THEN FRound(a_neg, BSub(ma, mb), e, FALSE)
    ELSE FRound(b_neg, BSub(mb, ma), e, FALSE)

FAdd(a, b) ==
    IF a.m = <<>> THEN b
    ELSE IF b.m = <<>> THEN a
    ELSE IF a.e <= b.e
    THEN FAddAligned(a.neg, a.m, b.neg, BShl(b.m, b.e - a.e), a.e)
    ELSE FAddAligned(a.neg, BShl(a.m, a.e - b.e), b.neg, b.m, b.e)

FSub(a, b) == FAdd(a, FNeg(b))

FMul(a, b) ==
    IF a.m = <<>> \/ b.m = <<>> THEN FZero
    ELSE FRound(a.neg # b.neg, BMul(a.m, b.m), a.e + b.e, FALSE)

\* ma * 2^ea / (mb * 2^eb) for ma, mb of 53 bits
FDivNormal(neg, ma, ea, mb, eb) ==
    IF BCmp(ma, mb) >= 0
    THEN FRound(neg, BDivDigits(BSub(ma, mb), mb, 11, <<1>>).q, ea - eb - 55,
                BDivDigits(BSub(ma, mb), mb, 11, <<1>>).r # <<>>)
    ELSE FRound(neg, BDivDigits(ma, mb, 11, <<>>).q, ea - eb - 55,
                BDivDigits(ma, mb, 11, <<>>).r # <<>>)

\* a / b for b # 0
FDiv(a, b) ==
    IF a.m = <<>> THEN FZero
    ELSE FDivNormal(a.neg # b.neg,
                    BShl(a.m, 53 - BitLen(a.m)), a.e - (53 - BitLen(a.m)),
                    BShl(b.m, 53 - BitLen(b.m)), b.e - (53 - BitLen(b.m)))

\* a <= b
FLe(a, b) == FSub(a, b).m = <<>> \/ FSub(a, b).neg

\* The float n / d of two ints
D(n, d) == FDiv(FromInt(n), FromInt(d))

(***************************************************************************)
(* WeatherAnalyzer                                                         *)
(*                                                                         *)
(* A segment is [start, end, length_m] with whole-degree coordinates and   *)
(* whole metres; sample coordinates and weather values are rationals.      *)
(* The weather lookup is the one call out of the analyzer: its outcome is  *)
(* [ok, current], a failure (any exception of the request) or the          *)
(* "current" object of the response.                                       *)
(***************************************************************************)
RAIN_CRITICAL_MM == 50
WIND_CRITICAL_MS == 25
WEATHER_SAMPLE_INTERVAL_KM == 50

\* int(x) of a rational: truncation towards zero
TruncToInt(x) == IF x[1] >= 0 THEN x[1] \div x[2] ELSE -((-x[1]) \div x[2])

\* sum(seg["length_m"] for seg in segments)
RECURSIVE total_length_m(_)
total_length_m(segments) ==
    IF segments = <<>> THEN 0
    ELSE Head(segments).length_m + total_length_m(Tail(segments))

\* num_samples = max(1, int(total_distance_km / WEATHER_SAMPLE_INTERVAL_KM))
num_samples_of(segments) ==
    CHOOSE out \in {IF n < 1 THEN 1 ELSE n :
        n \in {TruncToInt(RDiv(RDiv(Int2R(total_length_m(segments)), Int2R(1000)),
                               Int2R(WEATHER_SAMPLE_INTERVAL_KM)))}} : TRUE

\* The midpoint of a segment.
segment_midpoint(mid_seg) ==
    <<D(mid_seg.start[1] + mid_seg.end[1], 2), D(mid_seg.start[2] + mid_seg.end[2], 2)>>

\* The sample taken within a segment at target_distance.
sample_point(st, segment) ==
    LET offset == FSub(st.target_distance, FromInt(st.current_distance))
        ratio == IF segment.length_m > 0
                 THEN FDiv(offset, FromInt(segment.length_m)) ELSE FZero
    IN  <<FAdd(FromInt(segment.start[1]),
               FMul(ratio, FromInt(segment.end[1] - segment.start[1]))),
          FAdd(FromInt(segment.start[2]),
               FMul(ratio, FromInt(segment.end[2] - segment.start[2])))>>

\* The while loop of _get_sample_coordinates within one segment.  st holds
\* samples, current_distance (an int) and target_distance (a float).
RECURSIVE sample_while(_, _, _, _)
sample_while(st, segment, interval, num_samples) ==
    IF /\ FLe(st.target_distance, FromInt(st.current_distance + segment.length_m))
       /\ Len(st.samples) < num_samples
    THEN sample_while([st EXCEPT !.samples = Append(@, sample_point(st, segment)),
                                 !.target_distance = FAdd(@, interval)],
                      segment, interval, num_samples)
    ELSE st

\* The for loop of _get_sample_coordinates over the segments.
RECURSIVE sample_loop(_, _, _, _)
sample_loop(st, segments, interval, num_samples) ==
    IF segments = <<>> THEN st
    ELSE sample_loop(
            [sample_while(st, Head(segments), interval, num_samples)
                EXCEPT !.current_distance = @ + Head(segments).length_m],
            Tail(segments), interval, num_samples)

\* WeatherAnalyzer._get_sample_coordinates(segments, num_samples)
SampleAtFirstSegment(segments, num_samples) ==
    IF num_samples <= 1
    THEN <<segment_midpoint(segments[1])>>
    ELSE sample_loop([samples |-> <<>>, current_distance |-> 0, target_distance |-> FZero],
                     segments,
                     D(total_length_m(segments), num_samples - 1),
                     num_samples).samples

get_sample_coordinates(segments, num_samples) ==
    IF num_samples <= 1
    THEN <<segment_midpoint(segments[(Len(segments) \div 2) + 1])>>
    ELSE sample_loop([samples |-> <<>>, current_distance |-> 0, target_distance |-> FZero],
                     segments,
                     D(total_length_m(segments), num_samples - 1),
                     num_samples).samples

\* The weather of a sample whose lookup failed.
DefaultWeather ==
    [rainfall_mm |-> Zero, visibility_m |-> Int2R(10000), windspeed |-> Int2R(5),
     temperature |-> Int2R(20), cloudcover |-> 30]

\* WeatherAnalyzer._fetch_weather_open_meteo(lat, lon), given the outcome of
\* its request: the weather it returns and the requests it made.
FetchRetryingOnce(lat, lon, outcome) ==
    IF ~outcome.ok
    THEN [weather |-> DefaultWeather, requests |-> <<<<lat, lon>>, <<lat, lon>>>>]
    ELSE CHOOSE out \in {
        [weather |-> [rainfall_mm |-> rainfall_mm,
                      visibility_m |-> RMax(Int2R(100),
                          RSub(RSub(Int2R(10000), RMul(windspeed, Int2R(100))),
                               RMul(rainfall_mm, Int2R(50)))),
                      windspeed |-> windspeed,
                      temperature |-> Get(outcome.current, "temperature_2m", Int2R(15)),
                      cloudcover |-> TruncToInt(Get(outcome.current, "cloudcover", Int2R(50)))],
         requests |-> <<<<lat, lon>>>>] :
        rainfall_mm \in {Get(outcome.current, "precipitation", Zero)},
        windspeed \in {Get(outcome.current, "windspeed_10m", Zero)}} : TRUE

fetch_weather_open_meteo(lat, lon, outcome) ==
    IF ~outcome.ok
    THEN [weather |-> DefaultWeather, requests |-> <<<<lat, lon>>>>]
    ELSE CHOOSE out \in {
        [weather |-> [rainfall_mm |-> rainfall_mm,
                      visibility_m |-> RMax(Int2R(100),
                          RSub(RSub(Int2R(10000), RMul(windspeed, Int2R(100))),
                               RMul(rainfall_mm, Int2R(50)))),
                      windspeed |-> windspeed,
                      temperature |-> Get(outcome.current, "temperature_2m", Int2R(15)),
                      cloudcover |-> TruncToInt(Get(outcome.current, "cloudcover", Int2R(50)))],
         requests |-> <<<<lat, lon>>>>] :
        rainfall_mm \in {Get(outcome.current, "precipitation", Zero)},
        windspeed \in {Get(outcome.current, "windspeed_10m", Zero)}} : TRUE

\* One pass of the loop over sample_coords: the entry added to weather_data.
weather_entry(i, coord, weather) ==
    [rainfall_mm |-> weather.rainfall_mm, visibility_m |-> weather.visibility_m,
     windspeed |-> weather.windspeed, temperature |-> weather.temperature,
     cloudcover |-> weather.cloudcover, sample_id |-> i, location |-> coord]

\* sum(w[field] for w in weather_data) / len(weather_data)
RECURSIVE sum_field(_, _)
sum_field(data, field) ==
    IF data = <<>> THEN Zero ELSE RAdd(Head(data)[field], sum_field(Tail(data), field))

average_of(data, field) == RDiv(sum_field(data, field), Int2R(Len(data)))

RECURSIVE sum_cloudcover(_)
sum_cloudcover(data) ==
    IF data = <<>> THEN 0 ELSE Head(data).cloudcover + sum_cloudcover(Tail(data))

\* The risks computed from the averages.
visibility_risk_of(avg_visibility) ==
    clamp_unit(RSub(One, RDiv(avg_visibility, Int2R(10000))))
rain_risk_of(avg_rainfall) == RMin(One, RDiv(avg_rainfall, Int2R(RAIN_CRITICAL_MM)))
wind_risk_of(avg_windspeed) == RMin(One, RDiv(avg_windspeed, Int2R(WIND_CRITICAL_MS)))

\* The result of WeatherAnalyzer.analyze once weather_data is complete.
weather_summary(weather_data) ==
    CHOOSE out \in {
        [weather_data |-> weather_data,
         avg_rainfall |-> avg_rainfall,
         avg_windspeed |-> avg_windspeed,
         avg_visibility |-> avg_visibility,
         avg_temperature |-> average_of(weather_data, "temperature"),
         avg_cloudcover |-> TruncToInt(R(sum_cloudcover(weather_data), Len(weather_data))),
         visibility_risk |-> visibility_risk_of(avg_visibility),
         rain_risk |-> rain_risk_of(avg_rainfall),
         wind_risk |-> wind_risk_of(avg_windspeed),
         avg_weather_risk |->
            RDiv(RAdd(RAdd(visibility_risk_of(avg_visibility), rain_risk_of(avg_rainfall)),
                      wind_risk_of(avg_windspeed)), Int2R(3))] :
        avg_rainfall \in {average_of(weather_data, "rainfall_mm")},
        avg_windspeed \in {average_of(weather_data, "windspeed")},
        avg_visibility \in {average_of(weather_data, "visibility_m")}} : TRUE

\* WeatherAnalyzer._create_default_result()
weather_default_result ==
    [weather_data |-> <<>>, avg_rainfall |-> Zero, avg_windspeed |-> Int2R(5),
     avg_visibility |-> Int2R(10000), avg_temperature |-> Int2R(20),
     avg_cloudcover |-> 30, visibility_risk |-> Zero, rain_risk |-> Zero,
     wind_risk |-> Zero, avg_weather_risk |-> Zero]

(***************************************************************************)
(* RoadAnalyzer                                                            *)
(*                                                                         *)
(* An element of pre_extracted_segments is <<route_name, segments,         *)
(* max_length_m, min_length_m>>.  weather_results None and [] behave alike *)
(* (both are false) and are both <<>>; a weather result None is            *)
(* NoWeatherData.  The OpenStreetMap lookup is the one call out of the     *)
(* analyzer: its outcome is the highway type it finds, or OsmFailed for    *)
(* any exception.                                                          *)
(***************************************************************************)
WIDTH_MAPPING ==
    [motorway |-> 12, motorway_link |-> 10, trunk |-> 11, trunk_link |-> 9,
     primary |-> 9, primary_link |-> 7, secondary |-> 7, secondary_link |-> 6,
     tertiary |-> 6, tertiary_link |-> 5, residential |-> 4, service |-> 3,
     unclassified |-> 4, unknown |-> 5]

QUALITY_SCORES ==
    [motorway |-> 90, trunk |-> 85, primary |-> 80, secondary |-> 70,
     tertiary |-> 60, residential |-> 50, service |-> 40, unclassified |-> 45,
     unknown |-> 50]

NoWeatherData == [null |-> TRUE]

OsmFailed == "<failed>"

\* RoadAnalyzer._get_osmnx_road_type(start, end), given the lookup's outcome
get_osmnx_road_type(outcome) == IF outcome = OsmFailed THEN "secondary" ELSE outcome

\* RoadAnalyzer._estimate_road_type(length_m)
EstimateWithInclusiveBounds(length_m) ==
    IF length_m >= 10000 THEN "motorway"
    ELSE IF length_m >= 5000 THEN "primary"
    ELSE IF length_m >= 2000 THEN "secondary"
    ELSE "tertiary"

estimate_road_type(length_m) ==
    IF length_m > 10000 THEN "motorway"
    ELSE IF length_m > 5000 THEN "primary"
    ELSE IF length_m > 2000 THEN "secondary"
    ELSE "tertiary"

\* One pass of the loop of _analyze_road_types: the segment with road_type,
\* road_width and base_quality set.
classified_segment(segment, road_type) ==
    Put(Put(Put(segment, "road_type", road_type),
            "road_width", Get(WIDTH_MAPPING, road_type, 5)),
        "base_quality", Get(QUALITY_SCORES, road_type, 50))

\* The weather metrics _calculate_road_quality works with.
weather_metrics(weather_data) ==
    IF IsMapping(weather_data)
    THEN [avg_weather_risk |-> Get(weather_data, "avg_weather_risk", Zero),
          rainfall_mm |-> Get(weather_data, "avg_rainfall", Zero),
          visibility_m |-> Get(weather_data, "avg_visibility", Int2R(10000)),
          windspeed |-> Get(weather_data, "avg_windspeed", Int2R(5)),
          temperature |-> Get(weather_data, "avg_temperature", Int2R(20)),
          cloudcover |-> Get(weather_data, "avg_cloudcover", 30)]
    ELSE [avg_weather_risk |-> Zero, rainfall_mm |-> Zero,
          visibility_m |-> Int2R(10000), windspeed |-> Int2R(5),
          temperature |-> Int2R(20), cloudcover |-> 30]

\* adjusted_quality of a segment
adjusted_quality(base_quality, avg_weather_risk) ==
    RMax(Zero, RSub(Int2R(base_quality), RMul(avg_weather_risk, Hundred)))

\* weighted_quality after the loop over the segments
RECURSIVE weighted_quality(_, _)
weighted_quality(segments, avg_weather_risk) ==
    IF segments = <<>> THEN Zero
    ELSE RAdd(RMul(adjusted_quality(Head(segments).base_quality, avg_weather_risk),
                   Int2R(Head(segments).length_m)),
              weighted_quality(Tail(segments), avg_weather_risk))

\* road_type_distribution after the loop: kilometres per road type
RECURSIVE km_of_type(_, _)
km_of_type(segments, road_type) ==
    IF segments = <<>> THEN Zero
    ELSE RAdd(IF Head(segments).road_type = road_type
              THEN RDiv(Int2R(Head(segments).length_m), Int2R(1000)) ELSE Zero,
              km_of_type(Tail(segments), road_type))

road_type_distribution(segments) ==
    [t \in {segments[j].road_type : j \in 1..Len(segments)} |-> km_of_type(segments, t)]

\* road_quality_score of classified segments under a weather risk
RoadQualityUnweighted(segments, avg_weather_risk) ==
    clamp_unit(
        IF total_length_m(segments) > 0
        THEN RDiv(RDiv(weighted_quality(
                          [j \in 1..Len(segments) |-> [segments[j] EXCEPT !.length_m = 1]],
                          avg_weather_risk),
                       Int2R(Len(segments))), Hundred)
        ELSE R(1, 2))

road_quality_score(segments, avg_weather_risk) ==
    clamp_unit(
        IF total_length_m(segments) > 0
        THEN RDiv(RDiv(weighted_quality(segments, avg_weather_risk),
                       Int2R(total_length_m(segments))), Hundred)
        ELSE R(1, 2))

\* RoadAnalyzer._calculate_road_quality(segments, weather_data)
calculate_road_quality(segments, weather_data) ==
    CHOOSE out \in {
        [road_segments |->
            [j \in 1..Len(segments) |->
                Put(segments[j], "weather",
                    [rainfall_mm |-> m.rainfall_mm, visibility_m |-> m.visibility_m,
                     windspeed |-> m.windspeed, temperature |-> m.temperature,
                     cloudcover |-> m.cloudcover])],
         road_quality_score |-> road_quality_score(segments, m.avg_weather_risk),
         avg_weather_risk |-> m.avg_weather_risk,
         total_rainfall |-> m.rainfall_mm,
         road_type_distribution |-> road_type_distribution(segments)] :
        m \in {weather_metrics(weather_data)}} : TRUE

\* RoadAnalyzer._create_default_result(route_name, distance_m)
create_default_result(route_name) ==
    [route_name |-> route_name, road_segments |-> <<>>,
     road_quality_score |-> R(1, 2), avg_weather_risk |-> R(1, 2),
     total_rainfall |-> Zero, road_type_distribution |-> EmptyDict]

\* The weather result analyze pairs with the route at position idx (from 1).
WeatherOfAnalyzedRoutesOnly(pre_extracted_segments, weather_results, idx) ==
    LET k == Cardinality({i \in 1..idx : pre_extracted_segments[i][2] # <<>>})
    IN  IF weather_results # <<>> /\ k <= Len(weather_results)
        THEN weather_results[k] ELSE NoWeatherData

weather_for_route(pre_extracted_segments, weather_results, idx) ==
    IF weather_results # <<>> /\ idx <= Len(weather_results)
    THEN weather_results[idx] ELSE NoWeatherData

\* A pass of the loop of analyze once the segments of the route at idx are
\* classified: the result appended for it.
analyzed_route(pre_extracted_segments, weather_results, idx) ==
    IF pre_extracted_segments[idx][2] = <<>>
    THEN create_default_result(pre_extracted_segments[idx][1])
    ELSE Put(calculate_road_quality(
                pre_extracted_segments[idx][2],
                weather_for_route(pre_extracted_segments, weather_results, idx)),
             "route_name", pre_extracted_segments[idx][1])

(***************************************************************************)
(* run_analysis                                                            *)
(*                                                                         *)
(* RouteAnalysisSystem (ml_module.main) is the collaborator behind         *)
(* run_analysis: constructing it and its analyze_routes either raise or    *)
(* return.  run_analysis reads what analyze_routes returned to log it, and *)
(* hands it back unchanged when the reading raises nothing.  An error      *)
(* message is [text, args]: the text with the values formatted into it.    *)
(* In a result of the collaborator resilience_scores and the scores of its *)
(* routes are JSON values.                                                 *)
(***************************************************************************)
\* -90 <= lat <= 90 and -180 <= lng <= 180
ValidCoordinatesExclusive(lat, lng) ==
    (-90 < lat /\ lat < 90) /\ (-180 < lng /\ lng < 180)

valid_coordinates(lat, lng) ==
    (-90 <= lat /\ lat <= 90) /\ (-180 <= lng /\ lng <= 180)

ErrorMessage(text, args) == [text |-> text, args |-> args]

\* The result of the except branches.
error_result(error) ==
    [error |-> error, routes |-> <<>>, resilience_scores |-> None,
     analysis_complete |-> FALSE]

\* An exception is [class, mro, message]: the name of its class, the names
\* of type(e).__mro__ in order (the class itself first, object last) and
\* str(e).
\* isinstance(e, cls), for the class of that name
isinstance(exception, class_name) ==
    \E i \in 1..Len(exception.mro) : exception.mro[i] = class_name

\* An exception of a builtin class that derives from Exception directly
\* (KeyError through LookupError).
builtin_exception(class_name, message) ==
    [class |-> class_name,
     mro |-> <<class_name>> \o (IF class_name = "KeyError" THEN <<"LookupError">> ELSE <<>>)
                 \o <<"Exception", "BaseException", "object">>,
     message |-> message]

\* What run_analysis does with an exception raised inside its try: "except
\* ValueError" takes every instance of ValueError, "except Exception" every
\* other instance of Exception, and an exception that is neither leaves
\* run_analysis raised, to its caller.
handled(exception) ==
    IF isinstance(exception, "ValueError")
    THEN error_result(ErrorMessage("Validation error: " \o exception.message, <<>>))
    ELSE IF isinstance(exception, "Exception")
    THEN error_result(ErrorMessage(exception.message, <<>>))
    ELSE [raised |-> exception]

\* A JSON value whose Python type the code depends on is written with the
\* type as its field: [null |-> TRUE] for None, [bool |-> b], [int |-> n],
\* [float |-> x] for a finite float, [nan |-> TRUE], [inf |-> TRUE] for
\* Infinity and [inf |-> FALSE] for -Infinity, [str |-> s] for text (with a
\* second field, number, when float(s) accepts the text: the number it
\* gives), [array |-> <<...>>] for a list.  A dict is the mapping itself,
\* or [object |-> the mapping].
JsonNull == [null |-> TRUE]

IsNone(val) == "null" \in DOMAIN val

ScalarTags == {"null", "bool", "int", "float", "nan", "inf", "str", "array"}

\* isinstance(val, dict): the value has .get, .items and .setdefault.
IsJsonObject(val) == DOMAIN val \cap ScalarTags = {}

\* The mapping of a dict.
mapping_of(val) == IF "object" \in DOMAIN val THEN val.object ELSE val

\* type(val).__name__
type_name(val) ==
    IF "null" \in DOMAIN val THEN "NoneType"
    ELSE IF "bool" \in DOMAIN val THEN "bool"
    ELSE IF "int" \in DOMAIN val THEN "int"
    ELSE IF "str" \in DOMAIN val THEN "str"
    ELSE IF "array" \in DOMAIN val THEN "list"
    ELSE IF IsJsonObject(val) THEN "dict"
    ELSE "float"

\* isinstance(val, (int, float)): round(val, n), val / 1000 and
\* f"{val:.2f}" return.
is_real_number(val) == type_name(val) \in {"bool", "int", "float"}

\* No exception.
NoException == [class |-> "", message |-> ""]

\* val.get(...) on a value that is no dict
no_attribute_get(val) ==
    builtin_exception("AttributeError",
        "'" \o type_name(val) \o "' object has no attribute 'get'")

\* bool(val) of a JSON value
truthy(val) ==
    IF "null" \in DOMAIN val THEN FALSE
    ELSE IF "bool" \in DOMAIN val THEN val.bool
    ELSE IF "str" \in DOMAIN val THEN val.str # ""
    ELSE IF "int" \in DOMAIN val THEN val.int # 0
    ELSE IF "float" \in DOMAIN val THEN val.float.m # <<>>
    ELSE IF "array" \in DOMAIN val THEN Len(val.array) > 0
    ELSE IF IsJsonObject(val) THEN DOMAIN mapping_of(val) # {}
    ELSE TRUE

\* The number that float() reads in a text, or the value itself.
number_of(val) ==
    IF "str" \in DOMAIN val /\ "number" \in DOMAIN val THEN val.number ELSE val

\* float(val): [raises |-> the class of the exception] for text that is no
\* number (ValueError) and for None, a list and a dict (TypeError), else the
\* float as [float |-> x], [nan |-> TRUE] or [inf |-> sign].
py_float(val) ==
    IF "str" \in DOMAIN number_of(val) THEN [raises |-> "ValueError"]
    ELSE IF ~is_real_number(number_of(val)) THEN [raises |-> "TypeError"]
    ELSE IF "bool" \in DOMAIN number_of(val)
    THEN [float |-> FromInt(IF number_of(val).bool THEN 1 ELSE 0)]
    ELSE IF "int" \in DOMAIN number_of(val) THEN [float |-> FromInt(number_of(val).int)]
    ELSE number_of(val)

\* next((r["overall_resilience_score"] for r in routes
\*       if r["route_name"] == route_name), 0): the score found, or the
\* KeyError of the first route read that lacks a key.
RECURSIVE route_score_of(_, _)
route_score_of(routes, route_name) ==
    IF routes = <<>> THEN [found |-> [int |-> 0]]
    ELSE IF "route_name" \notin DOMAIN Head(routes)
    THEN [raises |-> builtin_exception("KeyError", "'route_name'")]
    ELSE IF Head(routes).route_name # route_name
    THEN route_score_of(Tail(routes), route_name)
    ELSE IF "overall_resilience_score" \notin DOMAIN Head(routes)
    THEN [raises |-> builtin_exception("KeyError", "'overall_resilience_score'")]
    ELSE [found |-> Head(routes).overall_resilience_score]

\* f"{route_score:.2f}": the exception it raises on a value that is no
\* number (text, None, a list, a dict).
format_2f_raises(route_score) ==
    IF is_real_number(route_score) THEN NoException
    ELSE IF "str" \in DOMAIN route_score
    THEN builtin_exception("ValueError",
            "Unknown format code 'f' for object of type 'str'")
    ELSE builtin_exception("TypeError",
            "unsupported format string passed to "
                \o type_name(route_score) \o ".__format__")

\* The loop over ranked_routes that logs the ranking: the first exception
\* raised, in the order of the ranking.
RECURSIVE log_rankings_raises(_, _)
log_rankings_raises(ranked_routes, routes) ==
    IF ranked_routes = <<>> THEN NoException
    ELSE IF "raises" \in DOMAIN route_score_of(routes, Head(ranked_routes))
    THEN route_score_of(routes, Head(ranked_routes)).raises
    ELSE IF format_2f_raises(route_score_of(routes, Head(ranked_routes)).found) # NoException
    THEN format_2f_raises(route_score_of(routes, Head(ranked_routes)).found)
    ELSE log_rankings_raises(Tail(ranked_routes), routes)

\* The "Log results summary" block on the result of analyze_routes (a
\* mapping whose routes, if any, are a list; the ranked_routes and routes of
\* its resilience_scores, if any, are a list of names and a list of
\* mappings): the exception it raises, if any.
log_summary_raises(result) ==
    IF truthy(Get(result, "error", JsonNull)) THEN NoException
    ELSE IF ~truthy(Get(result, "resilience_scores", JsonNull)) THEN NoException
    ELSE IF ~IsJsonObject(result.resilience_scores)
    THEN no_attribute_get(result.resilience_scores)
    ELSE log_rankings_raises(
            Get(mapping_of(result.resilience_scores), "ranked_routes", <<>>),
            Get(mapping_of(result.resilience_scores), "routes", <<>>))

\* run_analysis(origin_lat, origin_lng, dest_lat, dest_lng, ...), given what
\* the collaborator does when it is reached: the result and the calls made.
run_analysis(origin_lat, origin_lng, dest_lat, dest_lng, system) ==
    IF ~valid_coordinates(origin_lat, origin_lng)
    THEN [result |-> error_result(ErrorMessage(
                        "Validation error: Invalid origin coordinates: ",
                        <<origin_lat, origin_lng>>)),
          calls |-> <<>>]
    ELSE IF ~valid_coordinates(dest_lat, dest_lng)
    THEN [result |-> error_result(ErrorMessage(
                        "Validation error: Invalid destination coordinates: ",
                        <<dest_lat, dest_lng>>)),
          calls |-> <<>>]
    ELSE IF system.does = "init raises"
    THEN [result |-> handled(system.exception), calls |-> <<"RouteAnalysisSystem">>]
    ELSE IF system.does = "analyze_routes raises"
    THEN [result |-> handled(system.exception),
          calls |-> <<"RouteAnalysisSystem", "analyze_routes">>]
    ELSE IF log_summary_raises(system.result) # NoException
    THEN [result |-> handled(log_summary_raises(system.result)),
          calls |-> <<"RouteAnalysisSystem", "analyze_routes">>]
    ELSE [result |-> system.result,
          calls |-> <<"RouteAnalysisSystem", "analyze_routes">>]

(***************************************************************************)
(* GeminiResilienceScorer                                                  *)
(***************************************************************************)
\* The scores of a parsed JSON response are JSON values: [inf |-> TRUE] is
\* a number beyond the floats, such as 1e999, and [null |-> TRUE] stands for
\* null and for a key that is missing.
\* The int of a natural number held in limbs.
RECURSIVE ToInt(_)
ToInt(a) == IF a = <<>> THEN 0 ELSE a[1] + Base * ToInt(Tail(a))

\* int(round(x)) of a float x: the nearest integer, a tie to the even one.
RoundMagnitude(q2, lost) ==
    IF q2 # <<>> /\ q2[1] % 2 = 1 /\ (lost \/ (q2[1] \div 2) % 2 = 1)
    THEN ToInt(BShr(q2, 1).q) + 1
    ELSE ToInt(BShr(q2, 1).q)

py_round(x) ==
    IF x.m = <<>> THEN 0
    ELSE IF x.e >= 0 THEN (IF x.neg THEN -1 ELSE 1) * ToInt(BShl(x.m, x.e))
    ELSE IF -x.e > BitLen(x.m) + 1 THEN 0
    ELSE (IF x.neg THEN -1 ELSE 1)
            * RoundMagnitude(BShr(x.m, (-x.e) - 1).q, BShr(x.m, (-x.e) - 1).lost)

\* int(round(float(val))) raises ValueError or TypeError: float(val) does
\* (text that is no number, None, a list, a dict), or round does (NaN).
NotANumber(val) == "raises" \in DOMAIN py_float(val) \/ "nan" \in DOMAIN py_float(val)

\* round(float(val)) raises OverflowError, which clamp_int does not catch.
ClampRaises(val) == "inf" \in DOMAIN py_float(val)

\* clamp_int(val) where it returns: int(round(float(val))), 50 on ValueError
\* and TypeError, limited to 0..100.
clamp_int(val) ==
    CHOOSE out \in {IF v < 0 THEN 0 ELSE IF v > 100 THEN 100 ELSE v :
        v \in {IF NotANumber(val) THEN 50 ELSE py_round(py_float(val).float)}} : TRUE

\* clamp_int(val) if val is not None else 50
clamp_or_50(val) == IF IsNone(val) THEN 50 ELSE clamp_int(val)

\* The fallback overall score: int(round((100 - weather_risk) * 0.2 +
\* road_safety * 0.3 + (100 - social_risk) * 0.2 + (100 - traffic_risk) * 0.3))
fallback_overall(weather_risk, road_safety, social_risk, traffic_risk) ==
    py_round(FAdd(FAdd(FAdd(FMul(FromInt(100 - weather_risk), D(1, 5)),
                            FMul(FromInt(road_safety), D(3, 10))),
                       FMul(FromInt(100 - social_risk), D(1, 5))),
                  FMul(FromInt(100 - traffic_risk), D(3, 10))))

\* overall_score == 0: the number 0, 0.0 or False
IsZeroJson(val) == is_real_number(val) /\ ~truthy(val)

\* f"Route {i+1}" of the i-th input route (i counted from 1 here).
numbered_route_name(i) == <<"Route 1", "Route 2", "Route 3", "Route 4">>[i]

\* r.get("route_name", f"Route {i+1}"), the key of an input route in
\* input_route_names.
input_route_name(routes_data, i) ==
    Get(routes_data[i], "route_name", numbered_route_name(i))

\* input_route_names.get(route_name): the index of the last input route
\* under that key (a later route overwrites an earlier one), or 0 for None.
input_index(routes_data, route_name) ==
    IF \E i \in 1..Len(routes_data) : input_route_name(routes_data, i) = route_name
    THEN CHOOSE i \in 1..Len(routes_data) :
            /\ input_route_name(routes_data, i) = route_name
            /\ \A j \in (i + 1)..Len(routes_data) :
                  input_route_name(routes_data, j) # route_name
    ELSE 0

\* social_risk of a route of the response: the input's (50 if it has none)
\* when the response gives none and names an input route.
social_risk_of(route, routes_data) ==
    IF ~IsNone(Get(route, "social_risk_score", JsonNull)) THEN route.social_risk_score
    ELSE IF input_index(routes_data, Get(route, "route_name", "Unknown Route")) = 0
    THEN JsonNull
    ELSE Get(routes_data[input_index(routes_data, Get(route, "route_name", "Unknown Route"))],
             "social_risk", [int |-> 50])

\* A route of the response needs a fallback overall score.
needs_fallback(route) ==
    \/ IsNone(Get(route, "overall_resilience_score", JsonNull))
    \/ IsZeroJson(route.overall_resilience_score)

\* The values of a route of the response that clamp_int is applied to.
clamped_values(route, routes_data) ==
    {v \in {Get(route, "weather_risk_score", JsonNull),
            Get(route, "road_safety_score", JsonNull),
            Get(route, "social_risk_score", JsonNull),
            social_risk_of(route, routes_data),
            Get(route, "traffic_risk_score", JsonNull)} : ~IsNone(v)}
    \cup (IF needs_fallback(route) THEN {} ELSE {route.overall_resilience_score})

\* One pass of the loop over the routes of the response.
validated_route(route, routes_data) ==
    [route_name |-> Get(route, "route_name", "Unknown Route"),
     weather_risk_score |-> clamp_or_50(Get(route, "weather_risk_score", JsonNull)),
     road_safety_score |-> clamp_or_50(Get(route, "road_safety_score", JsonNull)),
     social_risk_score |-> clamp_or_50(social_risk_of(route, routes_data)),
     traffic_risk_score |-> clamp_or_50(Get(route, "traffic_risk_score", JsonNull)),
     overall_resilience_score |->
        IF needs_fallback(route)
        THEN clamp_int([int |-> fallback_overall(
                clamp_or_50(Get(route, "weather_risk_score", JsonNull)),
                clamp_or_50(Get(route, "road_safety_score", JsonNull)),
                clamp_or_50(Get(route, "social_risk_score", JsonNull)),
                clamp_or_50(Get(route, "traffic_risk_score", JsonNull)))])
        ELSE clamp_int(route.overall_resilience_score),
     short_summary |-> Get(route, "short_summary", "No summary available"),
     reasoning |-> Get(route, "reasoning", "No reasoning provided")]

\* The route made from an input route when the response has no routes.
pending_route(input_route) ==
    [route_name |-> Get(input_route, "route_name", "Unknown Route"),
     weather_risk_score |-> 50,
     road_safety_score |-> 50,
     social_risk_score |-> clamp_int(Get(input_route, "social_risk", [int |-> 50])),
     traffic_risk_score |-> 50,
     overall_resilience_score |-> 50,
     short_summary |-> "Score calculation pending",
     reasoning |-> "Gemini did not return scores for this route"]

\* sorted(names, key = the overall score of the first route of that name,
\* reverse = True): the 1-based place of element i, equal keys in order.
rank_key(validated_routes, name) ==
    validated_routes[CHOOSE i \in 1..Len(validated_routes) :
        /\ validated_routes[i].route_name = name
        /\ \A j \in 1..(i - 1) : validated_routes[j].route_name # name].overall_resilience_score

rank_position(validated_routes, i) ==
    1 + Cardinality({j \in 1..Len(validated_routes) :
            \/ rank_key(validated_routes, validated_routes[j].route_name)
                  > rank_key(validated_routes, validated_routes[i].route_name)
            \/ /\ rank_key(validated_routes, validated_routes[j].route_name)
                     = rank_key(validated_routes, validated_routes[i].route_name)
               /\ j < i})

ranked_by_score(validated_routes) ==
    [k \in 1..Len(validated_routes) |->
        validated_routes[CHOOSE i \in 1..Len(validated_routes) :
            rank_position(validated_routes, i) = k].route_name]

\* _validate_scores raises: the response is not a JSON object, a route of it
\* is not one (route.get on text, a number, null or a list), or a score
\* that clamp_int is applied to is beyond the floats: a score of a route of
\* the response, or, when the response has no routes, the social_risk of an
\* input route.  (The routes of a response, when it has the key, are a
\* list.)
validate_raises(parsed, routes_data) ==
    \/ "object" \notin DOMAIN parsed
    \/ /\ Get(parsed.object, "routes", <<>>) = <<>>
       /\ \E i \in 1..Len(routes_data) :
             ClampRaises(Get(routes_data[i], "social_risk", [int |-> 50]))
    \/ \E i \in 1..Len(Get(parsed.object, "routes", <<>>)) :
          \/ ~IsJsonObject(parsed.object.routes[i])
          \/ \E v \in clamped_values(parsed.object.routes[i], routes_data) : ClampRaises(v)

\* _validate_scores(parsed, routes_data) where it returns
validated_result(parsed, validated_routes, ranked) ==
    [routes |-> validated_routes,
     ranked_routes |-> ranked,
     best_route_name |->
        IF Get(parsed, "best_route_name", "") # "" THEN parsed.best_route_name
        ELSE IF ranked # <<>> THEN ranked[1] ELSE None,
     reason_for_selection |->
        Get(parsed, "reason_for_selection", "Selected based on overall resilience score")]

validated_routes_of(parsed, routes_data) ==
    IF Get(parsed, "routes", <<>>) = <<>>
    THEN [i \in 1..Len(routes_data) |-> pending_route(routes_data[i])]
    ELSE [i \in 1..Len(parsed.routes) |-> validated_route(parsed.routes[i], routes_data)]

validate_scores(parsed, routes_data) ==
    CHOOSE out \in {
        validated_result(parsed, validated_routes,
            IF Get(parsed, "ranked_routes", <<>>) # <<>> THEN parsed.ranked_routes
            ELSE ranked_by_score(validated_routes)) :
        validated_routes \in {validated_routes_of(parsed, routes_data)}} : TRUE

\* A response text: "" ; text without a brace; text whose braces hold no
\* JSON even after the repair; a JSON value alone, within a code fence, or
\* after some prose; and a brace block that json.loads rejects as it is and
\* accepts after the repair: written with ' for ", with a comma before a
\* closing brace or bracket, or with keys left unquoted.
NoneResult == [null |-> TRUE]

\* json.loads(cleaned_text) returns: the text (the inside of the fence, if
\* it is fenced) is a JSON value.
DirectForms == {"json", "fenced"}

\* json.loads(json_text) returns: the first brace block is a JSON object.
BlockForms == {"embedded"}

\* json.loads(cleaned) returns after the three substitutions.
RepairedForms == {"single_quotes", "trailing_commas", "unquoted_keys"}

\* _extract_json_from_text(text): the parsed value, or None.
extract_json_from_text(text) ==
    IF text.form \in DirectForms THEN text.value
    ELSE IF text.form \in {"empty", "prose"} THEN NoneResult
    ELSE IF text.form \in BlockForms THEN text.value
    ELSE IF text.form \in RepairedForms THEN text.value
    ELSE NoneResult

\* score_routes from "if not response_text" on, the exception handler
\* included.
after_response(response_text, routes_data) ==
    IF response_text.form = "empty" THEN NoneResult
    ELSE IF IsNone(extract_json_from_text(response_text)) THEN NoneResult
    ELSE IF validate_raises(extract_json_from_text(response_text), routes_data)
    THEN NoneResult
    ELSE validate_scores(extract_json_from_text(response_text).object, routes_data)

\* round(route.get(key, default), 1) of _build_prompt raises TypeError: the
\* value is no number (text, None, a list, a dict); so does the division of
\* distance_m by 1000.
RoundedKeys == {"distance_m", "predicted_duration_min", "social_risk", "political_risk"}

WeatherKeys == {"rainfall_mm", "visibility_m", "windspeed"}

\* The entry of one route in optimized_routes cannot be built: a value to
\* be rounded is no number, or weather is no dict.
route_prompt_raises(route) ==
    \/ \E k \in RoundedKeys \cap DOMAIN route : ~is_real_number(route[k])
    \/ /\ "weather" \in DOMAIN route
       /\ \/ ~IsJsonObject(route.weather)
          \/ \E k \in WeatherKeys \cap DOMAIN route.weather : ~is_real_number(route.weather[k])

\* priorities_text cannot be built: user_priorities is truthy and no dict,
\* or one of the four weights it formats with .2f is no number.
priorities_text_raises(user_priorities) ==
    /\ truthy(user_priorities)
    /\ \/ ~IsJsonObject(user_priorities)
       \/ \E k \in {"time", "distance", "safety", "carbon_emission"} \cap DOMAIN user_priorities :
             format_2f_raises(user_priorities[k]) # NoException

\* _build_prompt(routes_data, user_priorities) raises
build_prompt_raises(routes_data, user_priorities) ==
    \/ \E i \in 1..Len(routes_data) : route_prompt_raises(routes_data[i])
    \/ priorities_text_raises(user_priorities)

\* The retry loop of score_routes.
max_retries == 3

BackoffConstant(attempt) == 1

backoff_seconds(attempt) == 1 + attempt * 2

(***************************************************************************)
(* api_server.analyze_routes_api                                           *)
(***************************************************************************)
\* json.dumps(obj): the JSON text of obj; json.loads of it gives obj back.
json_dumps(obj) == [json |-> obj]

\* What json.dumps raises on a value that has no JSON form.
NotSerializable ==
    builtin_exception("TypeError", "Object of type ndarray is not JSON serializable")

ApiHandlerReraising(exception) == [raised |-> exception]

\* The except branch of analyze_routes_api: str(e) of every instance of
\* Exception; any other exception leaves analyze_routes_api raised.
api_handled(exception) ==
    IF isinstance(exception, "Exception")
    THEN json_dumps(error_result(ErrorMessage(exception.message, <<>>)))
    ELSE [raised |-> exception]

\* analyze_routes_api(source_lat, ..., priorities), given what the
\* collaborator does when it is reached: the JSON text returned and the
\* calls made.  The coordinates are passed on unchecked.
analyze_routes_api(system) ==
    IF system.does = "init raises"
    THEN [result |-> api_handled(system.exception),
          calls |-> <<"SupplyChainReroutingSystem">>]
    ELSE IF system.does = "analyze_routes raises"
    THEN [result |-> api_handled(system.exception),
          calls |-> <<"SupplyChainReroutingSystem", "analyze_routes">>]
    ELSE IF system.does = "returns unserializable"
    THEN [result |-> api_handled(NotSerializable),
          calls |-> <<"SupplyChainReroutingSystem", "analyze_routes", "json.dumps">>]
    ELSE [result |-> json_dumps(system.result),
          calls |-> <<"SupplyChainReroutingSystem", "analyze_routes", "json.dumps">>]

(***************************************************************************)
(* Inputs of the scoring core                                              *)
(***************************************************************************)
\* The largest batch of routes.
MaxRoutes == 2

RouteNames == <<"Route 1", "Route 2", "Route 3", "Route 4">>

ScoreKeys == {"time_score", "distance_score", "carbon_score", "road_quality_score"}

\* Component scores: the ends of [0,1] and the rationale threshold 0.8; 0.5
\* comes in as the default of a missing score.
ScoreVals == {Zero, R(4, 5), One}
\* The coarse grid of component scores: stored (1.0) or missing.
CoarseScoreVals == {One}

\* Raw priority weights: 0.25 x 4 sums to 1.0; 0.253 brings sums within 0.01
\* of 1.0 without being 1.0 (1.003, 1.006, 1.009) and just outside (1.012);
\* 2 gives sums far from 1.0; all 0 gives the zero sum.
WeightVals == {Zero, R(1, 4), R(253, 1000), R(2, 1)}
\* The coarse grid of weights.
CoarseWeightVals == {Zero, R(1, 4)}

\* Every route mapping with the given name and any subset of the four stored
\* component scores, with values from vals.
RouteDicts(name, vals) ==
    UNION {{[k \in S \cup {"route_name"} |-> IF k = "route_name" THEN name ELSE g[k]] :
              g \in [S -> vals]} : S \in SUBSET ScoreKeys}

PriorityMappings(vals) ==
    [{"time", "distance", "carbon_emission", "road_quality"} -> vals]

\* A score mapping given to calculate as an argument (time_scores, ...,
\* road_scores) by a caller that enters only the routes carrying the score:
\* a route without it has no entry, and of two routes of one name the later
\* one that carries it gives the value.  (rescore_routes builds its own
\* mappings, with an entry for every route: stored_scores.)
CarriedScores(routes_data, key) ==
    [name \in {routes_data[i].route_name :
                  i \in {j \in 1..Len(routes_data) : key \in DOMAIN routes_data[j]}} |->
        routes_data[CHOOSE i \in 1..Len(routes_data) :
            /\ routes_data[i].route_name = name
            /\ key \in DOMAIN routes_data[i]
            /\ \A j \in (i + 1)..Len(routes_data) :
                  ~(routes_data[j].route_name = name /\ key \in DOMAIN routes_data[j])][key]]

(***************************************************************************)
(* State                                                                   *)
(***************************************************************************)
VARIABLES
    routes_data,     \* the caller's list of enriched routes
    routes_data0,    \* history: routes_data as first obtained
    priorities,      \* the priorities argument of calculate and rescore_routes
    pc,              \* where the scoring request is
    weights,         \* calculate's time_priority .. road_priority
    results,         \* what calculate returned
    formatted,       \* what format_results returned
    fed,             \* the routes the caller feeds into the next rescore_routes
    rescored,        \* what rescore_routes returned
    calls,           \* the call trace of the latest rescore_routes
    an_routes,       \* the batch of routes given to the analyzers
    an_pc,           \* how far the analysis of the batch is
    time_results,    \* what TimeAnalyzer.analyze returned
    distance_results,\* what DistanceAnalyzer.analyze returned
    carbon_results,  \* what CarbonAnalyzer.analyze returned
    seg_route,       \* the route given to extract_segments
    seg_pc,          \* whether extract_segments has run
    seg_result,      \* what extract_segments returned
    w_segments,      \* the segments given to WeatherAnalyzer.analyze
    w_pc,            \* where WeatherAnalyzer.analyze is
    num_samples,     \* the number of samples it asks the sampler for
    sample_coords,   \* what _get_sample_coordinates returned
    outcomes,        \* history: the outcome of each weather lookup made
    requests,        \* the requests sent to the weather service, in order
    weather_data,    \* the weather entries collected so far
    weather_result,  \* what WeatherAnalyzer.analyze returned
    OSMNX_AVAILABLE, \* road_analysis: whether osmnx could be imported
    osmnx_available, \* the RoadAnalyzer instance's field
    pre_extracted_segments, \* the caller's list given to RoadAnalyzer.analyze
    weather_results, \* its weather_results argument
    osmnx_enabled,   \* its osmnx_enabled argument: "None", "True" or "False"
    r_pc,            \* where RoadAnalyzer.analyze is: "start", "routes", "done"
    r_idx,           \* the route its loop is at (counted from 1)
    r_seg,           \* the segment of that route _analyze_road_types is at
    r_results,       \* its results list so far
    osm_lookups,     \* history: the outcomes of the OpenStreetMap lookups
    road_calls,      \* history: the osmnx_enabled argument of every analyze call
    road_results,    \* what RoadAnalyzer.analyze returned
    run_args,        \* the coordinates given to run_analysis
    run_pc,          \* whether run_analysis has run
    sc_model,        \* GeminiResilienceScorer: whether self.model is set
    sc_routes,       \* the routes_data given to score_routes
    sc_priorities,   \* the user_priorities given to score_routes
    sc_pc,           \* where score_routes is
    sc_attempt,      \* attempt of its retry loop
    llm_calls,       \* history: the outcome of each generate_content call
    sleeps,          \* history: the seconds of each time.sleep
    sc_result,       \* what score_routes returned
    run_system,      \* history: what run_analysis's collaborator did
    run_calls,       \* the calls run_analysis made to its collaborator
    run_result,      \* what run_analysis returned, or [raised |-> e]
    api_pc,          \* whether analyze_routes_api has run
    api_system,      \* history: what analyze_routes_api's collaborator did
    api_calls,       \* the calls analyze_routes_api made
    api_result,      \* what analyze_routes_api returned, or [raised |-> e]
    sm_request,      \* generate_summary: the arguments of each call
    sm_api_key,      \* whether get_gemini_key() gave each call a key
    sm_behaviour,    \* what generate_content will do for each call
    sm_pc,           \* where each call is
    sm_cache_data,   \* the cache_data each call loaded from CACHE_FILE
    sm_source,       \* history: where each call's result came from
    sm_llm,          \* history: the outcomes of each call's generate_content
    sm_result,       \* what each call returned (its response_data before)
    cache_file,      \* the content of CACHE_FILE
    cache_stored,    \* history: the entries CACHE_FILE has held
    sm_dumped,       \* history: what each call dumped into CACHE_FILE
    sm_calls,        \* the number of calls of generate_summary so far
    news_cache,      \* news_analysis: the module's _news_cache
    news_clock,      \* datetime.now(), in hours
    news_entry_for,  \* history: the cities of the call that stored each entry
    news_calls,      \* the number of calls of fetch_route_news so far
    news_pc,         \* per caller: where its call of fetch_route_news is
    news_args,       \* per caller: the arguments of its call, whether the API
                     \* key is set, and (history) the time of its cache check
    news_before,     \* history: _news_cache as the call's cache check found it,
                     \* and the cities of the calls that stored its entries
    news_path,       \* history: the return statement the call took
    news_responses,  \* history: what the requests.get calls of the call did
    news_stored,     \* history: the entry the call wrote to _news_cache
    news_result      \* per caller: what its call returned

scoring_vars == <<routes_data, routes_data0, priorities, pc, weights, results, formatted, fed, rescored, calls>>
analysis_vars == <<an_routes, an_pc, time_results, distance_results, carbon_results>>
seg_vars == <<seg_route, seg_pc, seg_result>>
weather_vars == <<w_segments, w_pc, num_samples, sample_coords, outcomes, requests, weather_data, weather_result>>
road_vars == <<OSMNX_AVAILABLE, osmnx_available, pre_extracted_segments, weather_results, osmnx_enabled, r_pc, r_idx, r_seg, r_results, osm_lookups, road_calls, road_results>>
run_vars == <<run_args, run_pc, run_system, run_calls, run_result>>
api_vars == <<api_pc, api_system, api_calls, api_result>>
scorer_vars == <<sc_model, sc_routes, sc_priorities, sc_pc, sc_attempt, llm_calls, sleeps, sc_result>>
summary_vars == <<sm_request, sm_api_key, sm_behaviour, sm_pc, sm_cache_data, sm_source, sm_llm, sm_result, cache_file, cache_stored, sm_dumped, sm_calls>>
news_vars == <<news_cache, news_clock, news_entry_for, news_calls, news_pc, news_args, news_before, news_path, news_responses, news_stored, news_result>>
vars == <<scoring_vars, analysis_vars, seg_vars, weather_vars, road_vars, run_vars, api_vars, scorer_vars, summary_vars, news_vars>>

NoValue == <<>>

\* No scoring request, no analysis, no segmentation in progress.
NoScoring ==
    /\ routes_data = <<>>
    /\ routes_data0 = <<>>
    /\ priorities = NullPriorities
    /\ fed = <<>>
    /\ pc = "idle"
    /\ weights = NoValue
    /\ results = NoValue
    /\ formatted = NoValue
    /\ rescored = NoValue
    /\ calls = <<>>

NoAnalysis ==
    /\ an_routes = <<>>
    /\ an_pc = "idle"
    /\ time_results = NoValue
    /\ distance_results = NoValue
    /\ carbon_results = NoValue

NoSegmentation ==
    /\ seg_route = EmptyDict
    /\ seg_pc = "idle"
    /\ seg_result = NoValue

NoWeather ==
    /\ w_segments = <<>>
    /\ w_pc = "idle"
    /\ num_samples = 0
    /\ sample_coords = <<>>
    /\ outcomes = <<>>
    /\ requests = <<>>
    /\ weather_data = <<>>
    /\ weather_result = NoValue

NoRoads ==
    /\ OSMNX_AVAILABLE = FALSE
    /\ osmnx_available = FALSE
    /\ pre_extracted_segments = <<>>
    /\ weather_results = <<>>
    /\ osmnx_enabled = "None"
    /\ r_pc = "idle"
    /\ r_idx = 1
    /\ r_seg = 1
    /\ r_results = <<>>
    /\ osm_lookups = <<>>
    /\ road_calls = <<>>
    /\ road_results = NoValue

NoRun ==
    /\ run_args = <<0, 0, 0, 0>>
    /\ run_pc = "idle"
    /\ run_system = NoValue
    /\ run_calls = <<>>
    /\ run_result = NoValue

NoApi ==
    /\ api_pc = "idle"
    /\ api_system = NoValue
    /\ api_calls = <<>>
    /\ api_result = NoValue

NoScorer ==
    /\ sc_model = FALSE
    /\ sc_routes = <<>>
    /\ sc_priorities = <<>>
    /\ sc_pc = "idle"
    /\ sc_attempt = 0
    /\ llm_calls = <<>>
    /\ sleeps = <<>>
    /\ sc_result = NoValue

NoSummary ==
    /\ sm_request = <<>>
    /\ sm_api_key = <<>>
    /\ sm_behaviour = <<>>
    /\ sm_pc = <<>>
    /\ sm_cache_data = <<>>
    /\ sm_source = <<>>
    /\ sm_llm = <<>>
    /\ sm_result = <<>>
    /\ cache_file = NoValue
    /\ cache_stored = {}
    /\ sm_dumped = <<>>
    /\ sm_calls = 0

NoNews ==
    /\ news_cache = <<>>
    /\ news_clock = 0
    /\ news_entry_for = <<>>
    /\ news_calls = 0
    /\ news_pc = <<>>
    /\ news_args = <<>>
    /\ news_before = <<>>
    /\ news_path = <<>>
    /\ news_responses = <<>>
    /\ news_stored = <<>>
    /\ news_result = <<>>

\* The priorities of a request on a batch of routes: equal weights, weights
\* that do not sum to 1, and no mapping at all.
BatchPriorities ==
    {EqualWeights,
     [time |-> R(2, 1), distance |-> R(2, 1), carbon_emission |-> Zero, road_quality |-> Zero],
     NullPriorities}

\* Every list of n routes named RouteNames[1..n] with coarse stored scores.
Batches(n) ==
    {rd \in [1..n -> UNION {RouteDicts(RouteNames[i], CoarseScoreVals) : i \in 1..n}] :
        \A i \in 1..n : rd[i].route_name = RouteNames[i]}

\* The inputs: one route with coarse scores under the full grid of weights,
\* one route with the full grid of scores under coarse weights, or a batch of
\* up to MaxRoutes routes.
Init ==
    /\ \/ /\ routes_data \in Batches(1)
          /\ priorities \in PriorityMappings(WeightVals) \cup {NullPriorities}
       \/ /\ routes_data \in {<<r>> : r \in RouteDicts(RouteNames[1], ScoreVals)}
          /\ priorities \in PriorityMappings(CoarseWeightVals)
       \/ /\ routes_data \in UNION {Batches(n) : n \in 0..MaxRoutes}
          /\ priorities \in BatchPriorities
    /\ routes_data0 = routes_data
    /\ fed = routes_data
    /\ pc = "start"
    /\ weights = NoValue
    /\ results = NoValue
    /\ formatted = NoValue
    /\ rescored = NoValue
    /\ calls = <<>>
    /\ NoAnalysis
    /\ NoSegmentation
    /\ NoWeather
    /\ NoRoads
    /\ NoRun
    /\ NoApi
    /\ NoScorer
    /\ NoSummary
    /\ NoNews

\* calculator.calculate(routes, time_scores, ..., priorities), called with the
\* names of routes_data and the mappings of the scores its routes carry.
Calculate ==
    /\ pc = "start"
    /\ IF IsMapping(priorities)
       THEN /\ weights' = priority_values(priorities)
            /\ results' = calculate(route_names(routes_data),
                                    CarriedScores(routes_data, "time_score"),
                                    CarriedScores(routes_data, "distance_score"),
                                    CarriedScores(routes_data, "carbon_score"),
                                    CarriedScores(routes_data, "road_quality_score"),
                                    priorities)
            /\ pc' = "calculated"
       ELSE \* priorities.values() raises AttributeError
            /\ pc' = "raised"
            /\ UNCHANGED <<weights, results>>
    /\ UNCHANGED <<routes_data, routes_data0, priorities, formatted, fed, rescored, calls, analysis_vars, seg_vars, weather_vars, road_vars, run_vars, api_vars, scorer_vars, summary_vars, news_vars>>

\* calculator.format_results(resilience_results)
FormatResults ==
    /\ pc = "calculated"
    /\ formatted' = format_results(results)
    /\ pc' = "formatted"
    /\ UNCHANGED <<routes_data, routes_data0, priorities, weights, results, fed, rescored, calls, analysis_vars, seg_vars, weather_vars, road_vars, run_vars, api_vars, scorer_vars, summary_vars, news_vars>>

\* The priorities of an earlier rescoring of the same cached routes.
EarlierPriorities ==
    {[time |-> One, distance |-> Zero, carbon_emission |-> Zero, road_quality |-> Zero],
     [time |-> Zero, distance |-> R(2, 1), carbon_emission |-> R(2, 1), road_quality |-> Zero]}

\* An earlier rescore_routes(routes, q): the caller keeps the returned routes
\* and feeds them into the next call.
RescoreEarlier ==
    /\ pc = "start"
    /\ \E q \in EarlierPriorities :
          \E r \in {rescore_routes(fed, q)} :
              /\ fed' = r.result.routes
              /\ calls' = r.calls
    /\ UNCHANGED <<routes_data, routes_data0, priorities, pc, weights, results, formatted, rescored, analysis_vars, seg_vars, weather_vars, road_vars, run_vars, api_vars, scorer_vars, summary_vars, news_vars>>

\* rescore_routes(routes, priorities) on the routes the caller holds: the
\* cached routes_data (before or after they were scored through the
\* calculator), or the routes an earlier rescoring returned.
RescoreRoutes ==
    /\ pc \in {"start", "formatted"}
    /\ \E r \in {rescore_routes(fed, priorities)} :
           /\ rescored' = r.result
           /\ routes_data' = IF fed = routes_data THEN r.routes_data ELSE routes_data
           /\ calls' = r.calls
    /\ pc' = "rescored"
    /\ UNCHANGED <<routes_data0, priorities, weights, results, formatted, fed, analysis_vars, seg_vars, weather_vars, road_vars, run_vars, api_vars, scorer_vars, summary_vars, news_vars>>

Next ==
    \/ Calculate
    \/ FormatResults
    \/ RescoreEarlier
    \/ RescoreRoutes

Spec == Init /\ [][Next]_vars

(***************************************************************************)
(* The analyzers on a batch of routes                                      *)
(***************************************************************************)
DurationVals == {Int2R(3600), Int2R(5400), Int2R(7200)}
DistanceVals == {Int2R(100000), Int2R(150000), Int2R(200000)}

\* road_segments of a route: none stored, an empty list, or two segments
\* whose lengths sum to 150 km, or one segment without a length.
SegmentLists ==
    {<<>>, <<[segment_id |-> 0, length_m |-> Int2R(90000)],
             [segment_id |-> 1, length_m |-> Int2R(60000)]>>,
           <<[segment_id |-> 0]>>}

AnalysisRoutes(name) ==
    {[route_name |-> name, duration_s |-> d, distance_m |-> m] :
        d \in DurationVals, m \in DistanceVals}
    \cup {[route_name |-> name, duration_s |-> d, distance_m |-> m, road_segments |-> g] :
        d \in DurationVals, m \in DistanceVals, g \in SegmentLists}

InitAnalysis ==
    /\ an_routes \in UNION {
          {rd \in [1..n -> UNION {AnalysisRoutes(RouteNames[i]) : i \in 1..n}] :
              \A i \in 1..n : rd[i].route_name = RouteNames[i]} : n \in 0..MaxRoutes}
    /\ an_pc = "start"
    /\ time_results = NoValue
    /\ distance_results = NoValue
    /\ carbon_results = NoValue
    /\ NoScoring
    /\ NoSegmentation
    /\ NoWeather
    /\ NoRoads
    /\ NoRun
    /\ NoApi
    /\ NoScorer
    /\ NoSummary
    /\ NoNews

\* TimeAnalyzer().analyze(routes)
AnalyzeTime ==
    /\ an_pc = "start"
    /\ time_results' = analyze_time(an_routes)
    /\ an_pc' = "time"
    /\ UNCHANGED <<an_routes, distance_results, carbon_results, scoring_vars, seg_vars, weather_vars, road_vars, run_vars, api_vars, scorer_vars, summary_vars, news_vars>>

\* DistanceAnalyzer().analyze(routes)
AnalyzeDistance ==
    /\ an_pc = "time"
    /\ distance_results' = analyze_distance(an_routes)
    /\ an_pc' = "distance"
    /\ UNCHANGED <<an_routes, time_results, carbon_results, scoring_vars, seg_vars, weather_vars, road_vars, run_vars, api_vars, scorer_vars, summary_vars, news_vars>>

\* CarbonAnalyzer().analyze(routes)
AnalyzeCarbon ==
    /\ an_pc = "distance"
    /\ carbon_results' = analyze_carbon(an_routes)
    /\ an_pc' = "carbon"
    /\ UNCHANGED <<an_routes, time_results, distance_results, scoring_vars, seg_vars, weather_vars, road_vars, run_vars, api_vars, scorer_vars, summary_vars, news_vars>>

NextAnalysis ==
    \/ AnalyzeTime
    \/ AnalyzeDistance
    \/ AnalyzeCarbon

SpecAnalysis == InitAnalysis /\ [][NextAnalysis]_vars

(***************************************************************************)
(* The segmenter on one route                                              *)
(***************************************************************************)
\* The longest list of steps.
MaxSteps == 2

\* A start_location or end_location: the origin sentinel, a point on the
\* equator, a point on the prime meridian, and two points off both.
Locations == {[lat |-> pt[1], lng |-> pt[2]] : pt \in GridPoints}

\* A step with both locations, with one of them, or with none.
Steps ==
    {[start_location |-> a, end_location |-> b] : a \in Locations, b \in Locations}
    \cup {[start_location |-> a] : a \in Locations}
    \cup {[end_location |-> b] : b \in Locations}

InitSegmentation ==
    /\ seg_route \in {[route_name |-> RouteNames[1]]}
                      \cup UNION {{[route_name |-> RouteNames[1], steps |-> st] :
                                     st \in [1..n -> Steps]} : n \in 0..MaxSteps}
    /\ seg_pc = "start"
    /\ seg_result = NoValue
    /\ NoScoring
    /\ NoAnalysis
    /\ NoWeather
    /\ NoRoads
    /\ NoRun
    /\ NoApi
    /\ NoScorer
    /\ NoSummary
    /\ NoNews

\* extract_segments(route)
ExtractSegments ==
    /\ seg_pc = "start"
    /\ seg_result' = extract_segments(seg_route)
    /\ seg_pc' = "extracted"
    /\ UNCHANGED <<seg_route, scoring_vars, analysis_vars, weather_vars, road_vars, run_vars, api_vars, scorer_vars, summary_vars, news_vars>>

NextSegmentation == ExtractSegments

SpecSegmentation == InitSegmentation /\ [][NextSegmentation]_vars

(***************************************************************************)
(* WeatherAnalyzer.analyze on the segments of one route                    *)
(***************************************************************************)
\* The longest list of segments.
MaxSegments == 2

\* Segments of 30 km, of 70 km and of length 0.
WeatherSegments ==
    {[start |-> <<12, 77>>, end |-> <<13, 78>>, length_m |-> 30000],
     [start |-> <<13, 78>>, end |-> <<28, 77>>, length_m |-> 70000],
     [start |-> <<28, 77>>, end |-> <<28, 77>>, length_m |-> 0]}

\* The "current" object of a response of the weather service: precipitation
\* (mm) and wind speed (m/s) below, at and above the critical values, or a
\* response without them.
RainVals == {Int2R(-5), Zero, Int2R(25), Int2R(100)}
WindVals == {Zero, Int2R(10), Int2R(50)}

CurrentWeather ==
    {[precipitation |-> r, windspeed_10m |-> w, temperature_2m |-> Int2R(30),
      cloudcover |-> Int2R(80)] : r \in RainVals, w \in WindVals}
    \cup {[temperature_2m |-> Int2R(30)]}

\* The outcome of one lookup: the request fails, or it brings a response.
LookupOutcomes ==
    {[ok |-> FALSE]} \cup {[ok |-> TRUE, current |-> c] : c \in CurrentWeather}

InitWeather ==
    /\ w_segments \in UNION {[1..n -> WeatherSegments] : n \in 0..MaxSegments}
    /\ w_pc = "start"
    /\ num_samples = 0
    /\ sample_coords = <<>>
    /\ outcomes = <<>>
    /\ requests = <<>>
    /\ weather_data = <<>>
    /\ weather_result = NoValue
    /\ NoScoring
    /\ NoAnalysis
    /\ NoSegmentation
    /\ NoRoads
    /\ NoRun
    /\ NoApi
    /\ NoScorer
    /\ NoSummary
    /\ NoNews

\* analyze(segments) up to the loop over the sample points: without segments
\* it returns the default result.
WeatherStart ==
    /\ w_pc = "start"
    /\ IF w_segments = <<>>
       THEN /\ weather_result' = weather_default_result
            /\ w_pc' = "done"
            /\ UNCHANGED <<num_samples, sample_coords>>
       ELSE /\ \E n \in {num_samples_of(w_segments)} :
                /\ num_samples' = n
                /\ sample_coords' = get_sample_coordinates(w_segments, n)
            /\ w_pc' = "fetching"
            /\ UNCHANGED weather_result
    /\ UNCHANGED <<w_segments, outcomes, requests, weather_data>>
    /\ UNCHANGED <<scoring_vars, analysis_vars, seg_vars, road_vars, run_vars, api_vars, scorer_vars, summary_vars, news_vars>>

\* One pass of the loop over the sample points, with the lookup's outcome;
\* after the last sample analyze computes the averages and risks and returns.
FetchWeather ==
    /\ w_pc = "fetching"
    /\ Len(weather_data) < Len(sample_coords)
    /\ \E outcome \in LookupOutcomes :
       \E i \in {Len(weather_data)} :
       \E f \in {fetch_weather_open_meteo(sample_coords[i + 1][1], sample_coords[i + 1][2], outcome)} :
       \E data \in {Append(weather_data, weather_entry(i, sample_coords[i + 1], f.weather))} :
            /\ outcomes' = Append(outcomes, outcome)
            /\ requests' = requests \o f.requests
            /\ weather_data' = data
            /\ IF Len(data) = Len(sample_coords)
               THEN weather_result' = weather_summary(data) /\ w_pc' = "done"
               ELSE UNCHANGED <<weather_result, w_pc>>
    /\ UNCHANGED <<w_segments, num_samples, sample_coords>>
    /\ UNCHANGED <<scoring_vars, analysis_vars, seg_vars, road_vars, run_vars, api_vars, scorer_vars, summary_vars, news_vars>>

NextWeather ==
    \/ WeatherStart
    \/ FetchWeather

SpecWeather == InitWeather /\ [][NextWeather]_vars

(***************************************************************************)
(* RoadAnalyzer.analyze on the segments of a batch of routes               *)
(***************************************************************************)
\* Segment lengths at and next to the limits of the length classes.
RoadLengthVals == {0, 2000, 2001, 5000, 5001, 10000, 10001}
\* The coarse grid of lengths: a secondary and a motorway segment.
CoarseRoadLengthVals == {3000, 11000}

\* The extracted segments of a route with the given lengths, as
\* <<route_name, segments, max_length_m, min_length_m>>.
ExtractedSegments(route_name, lengths) ==
    <<route_name,
      [j \in 1..Len(lengths) |->
          [segment_id |-> j - 1, start |-> <<12, 77>>, end |-> <<13, 78>>,
           length_m |-> lengths[j]]],
      IF lengths = <<>> THEN 0
      ELSE CHOOSE l \in {lengths[j] : j \in 1..Len(lengths)} :
              \A j \in 1..Len(lengths) : lengths[j] <= l,
      IF lengths = <<>> THEN 0
      ELSE CHOOSE l \in {lengths[j] : j \in 1..Len(lengths)} :
              \A j \in 1..Len(lengths) : l <= lengths[j]>>

\* Weather risks: none; some; enough to bring a tertiary road's quality to
\* 0 but not a motorway's; and the largest.
RiskVals == {Zero, R(3, 10), R(13, 20), One}

\* A result of WeatherAnalyzer.analyze with the given avg_weather_risk.
RoadWeather(risk) ==
    [avg_weather_risk |-> risk, avg_rainfall |-> Int2R(12),
     avg_visibility |-> Int2R(8000), avg_windspeed |-> Int2R(10),
     avg_temperature |-> Int2R(25), avg_cloudcover |-> 60, weather_data |-> <<>>]

\* The weather results paired with a batch: different risks, or a result
\* without avg_weather_risk.
BatchWeather == {RoadWeather(R(3, 10)), RoadWeather(R(13, 20)), [avg_rainfall |-> Int2R(12)]}

\* What the OpenStreetMap lookup finds for a segment: a highway type with a
\* width and a quality, one without, or nothing (any exception).
OsmOutcomes == {"motorway", "footway", OsmFailed}

InitRoads ==
    /\ \/ \* one route, segments of every length class, one weather result
          /\ OSMNX_AVAILABLE = FALSE
          /\ osmnx_enabled \in {"None", "False"}
          /\ pre_extracted_segments \in
                {<<ExtractedSegments(RouteNames[1], lengths)>> :
                    lengths \in UNION {[1..n -> RoadLengthVals] : n \in 1..MaxSegments}}
          /\ weather_results \in {<<>>} \cup {<<RoadWeather(risk)>> : risk \in RiskVals}
       \/ \* a batch of routes with one segment or none, weather for some
          /\ OSMNX_AVAILABLE \in BOOLEAN
          /\ osmnx_enabled \in {"None", "True", "False"}
          /\ pre_extracted_segments \in UNION {
                {[i \in 1..n |-> ExtractedSegments(RouteNames[i], lengths[i])] :
                    lengths \in [1..n -> {<<>>} \cup {<<l>> : l \in CoarseRoadLengthVals}]} :
                n \in 0..MaxRoutes}
          /\ weather_results \in UNION {[1..k -> BatchWeather] :
                                          k \in 0..Len(pre_extracted_segments)}
    /\ osmnx_available = OSMNX_AVAILABLE
    /\ r_pc = "start"
    /\ r_idx = 1
    /\ r_seg = 1
    /\ r_results = <<>>
    /\ osm_lookups = <<>>
    /\ road_calls = <<>>
    /\ road_results = NoValue
    /\ NoScoring
    /\ NoAnalysis
    /\ NoSegmentation
    /\ NoWeather
    /\ NoRun
    /\ NoApi
    /\ NoScorer
    /\ NoSummary
    /\ NoNews

\* self.osmnx_available after "if osmnx_enabled is not None:
\* self.osmnx_available = bool(osmnx_enabled)".
OverrideResetToDetected(available, enabled) ==
    IF enabled = "None" THEN OSMNX_AVAILABLE ELSE enabled = "True"

override_osmnx(available, enabled) ==
    IF enabled = "None" THEN available ELSE enabled = "True"

\* The outcomes a lookup for a segment can have: every one raises when
\* osmnx could not be imported.
OsmLookupOutcomes == IF OSMNX_AVAILABLE THEN OsmOutcomes ELSE {OsmFailed}

\* analyze(pre, weather_results, enabled) up to the loop over the routes:
\* the override is written to the instance, and an empty input returns [].
analyze_begins(pre, enabled) ==
    /\ osmnx_available' = override_osmnx(osmnx_available, enabled)
    /\ osmnx_enabled' = enabled
    /\ pre_extracted_segments' = pre
    /\ road_calls' = Append(road_calls, enabled)
    /\ r_idx' = 1
    /\ r_seg' = 1
    /\ r_results' = <<>>
    /\ IF pre = <<>>
       THEN /\ road_results' = <<>>
            /\ osm_lookups' = <<>>
            /\ r_pc' = "done"
       ELSE /\ osm_lookups' = IF override_osmnx(osmnx_available, enabled)
                              THEN [i \in 1..Len(pre) |-> <<>>] ELSE <<>>
            /\ r_pc' = "routes"
            /\ UNCHANGED road_results
    /\ UNCHANGED <<OSMNX_AVAILABLE, weather_results>>
    /\ UNCHANGED <<scoring_vars, analysis_vars, seg_vars, weather_vars, run_vars, api_vars, scorer_vars, summary_vars, news_vars>>

\* RoadAnalyzer().analyze(pre_extracted_segments, weather_results, osmnx_enabled)
\* begins.
AnalyzeRoads ==
    /\ r_pc = "start"
    /\ analyze_begins(pre_extracted_segments, osmnx_enabled)

\* One pass of the loop of _analyze_road_types on the route analyze is at:
\* the OpenStreetMap lookup for the segment returns (when osmnx_available)
\* and the segment mapping is classified in place.
ClassifySegment ==
    /\ r_pc = "routes"
    /\ r_idx <= Len(pre_extracted_segments)
    /\ r_seg <= Len(pre_extracted_segments[r_idx][2])
    /\ \E outcome \in OsmLookupOutcomes :
        /\ pre_extracted_segments' =
              [pre_extracted_segments EXCEPT ![r_idx][2][r_seg] =
                  classified_segment(@,
                      IF osmnx_available THEN get_osmnx_road_type(outcome)
                      ELSE estimate_road_type(@.length_m))]
        /\ osm_lookups' = IF osmnx_available
                          THEN [osm_lookups EXCEPT ![r_idx] = Append(@, outcome)]
                          ELSE osm_lookups
    /\ r_seg' = r_seg + 1
    /\ UNCHANGED <<OSMNX_AVAILABLE, osmnx_available, weather_results, osmnx_enabled, r_pc, r_idx, r_results, road_calls, road_results>>
    /\ UNCHANGED <<scoring_vars, analysis_vars, seg_vars, weather_vars, run_vars, api_vars, scorer_vars, summary_vars, news_vars>>

\* The rest of a pass of the loop of analyze: the default result for a
\* route without segments; for the others _calculate_road_quality on the
\* classified segments, which writes the weather to the segment mappings.
FinishRoute ==
    /\ r_pc = "routes"
    /\ r_idx <= Len(pre_extracted_segments)
    /\ r_seg > Len(pre_extracted_segments[r_idx][2])
    /\ \E analysis \in {analyzed_route(pre_extracted_segments, weather_results, r_idx)} :
        /\ r_results' = Append(r_results, analysis)
        /\ pre_extracted_segments' =
              [pre_extracted_segments EXCEPT ![r_idx][2] = analysis.road_segments]
    /\ r_idx' = r_idx + 1
    /\ r_seg' = 1
    /\ UNCHANGED <<OSMNX_AVAILABLE, osmnx_available, weather_results, osmnx_enabled, r_pc, osm_lookups, road_calls, road_results>>
    /\ UNCHANGED <<scoring_vars, analysis_vars, seg_vars, weather_vars, run_vars, api_vars, scorer_vars, summary_vars, news_vars>>

\* analyze returns its results after the last route.
ReturnRoads ==
    /\ r_pc = "routes"
    /\ r_idx > Len(pre_extracted_segments)
    /\ road_results' = r_results
    /\ r_pc' = "done"
    /\ UNCHANGED <<OSMNX_AVAILABLE, osmnx_available, pre_extracted_segments, weather_results, osmnx_enabled, r_idx, r_seg, r_results, osm_lookups, road_calls>>
    /\ UNCHANGED <<scoring_vars, analysis_vars, seg_vars, weather_vars, run_vars, api_vars, scorer_vars, summary_vars, news_vars>>

NextRoads ==
    \/ AnalyzeRoads
    \/ ClassifySegment
    \/ FinishRoute
    \/ ReturnRoads

SpecRoads == InitRoads /\ [][NextRoads]_vars

(***************************************************************************)
(* Several analyze calls on one RoadAnalyzer                               *)
(***************************************************************************)
\* The largest number of analyze calls on the instance.
MaxAnalyzeCalls == 3

\* The segment input of a call: no route, or one route with a secondary or
\* a motorway segment.
CallSegments ==
    {<<>>} \cup {<<ExtractedSegments(RouteNames[1], <<l>>)>> : l \in CoarseRoadLengthVals}

InitRoadCalls ==
    /\ OSMNX_AVAILABLE \in BOOLEAN
    /\ osmnx_available = OSMNX_AVAILABLE
    /\ osmnx_enabled \in {"None", "True", "False"}
    /\ pre_extracted_segments \in CallSegments
    /\ weather_results = <<>>
    /\ r_pc = "start"
    /\ r_idx = 1
    /\ r_seg = 1
    /\ r_results = <<>>
    /\ osm_lookups = <<>>
    /\ road_calls = <<>>
    /\ road_results = NoValue
    /\ NoScoring
    /\ NoAnalysis
    /\ NoSegmentation
    /\ NoWeather
    /\ NoRun
    /\ NoApi
    /\ NoScorer
    /\ NoSummary
    /\ NoNews

\* A later analyze(pre_extracted_segments, None, osmnx_enabled) on the same
\* instance begins.
AnalyzeRoadsAgain ==
    /\ r_pc = "done"
    /\ Len(road_calls) < MaxAnalyzeCalls
    /\ \E enabled \in {"None", "True", "False"}, pre \in CallSegments :
          analyze_begins(pre, enabled)

NextRoadCalls ==
    \/ AnalyzeRoads
    \/ AnalyzeRoadsAgain
    \/ ClassifySegment
    \/ FinishRoute
    \/ ReturnRoads

SpecRoadCalls == InitRoadCalls /\ [][NextRoadCalls]_vars

(***************************************************************************)
(* run_analysis on the coordinates of a request                            *)
(***************************************************************************)
\* Latitudes and longitudes at, inside and just outside the valid ranges.
LatVals == {-91, -90, 0, 90, 91}
LngVals == {-181, -180, 0, 180, 181}

\* An exception of a class derived from the classes named, the nearest
\* first, which end in Exception or in BaseException alone.
derived_exception(class_name, bases, message) ==
    [class |-> class_name, mro |-> <<class_name>> \o bases \o <<"object">>,
     message |-> message]

\* The exceptions the collaborator raises: a ValueError; library classes
\* derived from ValueError (json.JSONDecodeError, UnicodeDecodeError,
\* ipaddress.AddressValueError, io.UnsupportedOperation, which is an OSError
\* as well); a class of its own derived from ValueError; exceptions that are
\* no ValueError (a RuntimeError, a KeyError, whose str(e) is the key quoted,
\* a class of its own); each kind with a message or with none; and
\* exceptions that are no Exception (the SystemExit of sys.exit(1), a
\* KeyboardInterrupt).
SystemExceptions ==
    {builtin_exception("ValueError", "No routes"),
     builtin_exception("ValueError", ""),
     derived_exception("JSONDecodeError", <<"ValueError", "Exception", "BaseException">>,
        "Expecting value: line 1 column 1 (char 0)"),
     derived_exception("UnicodeDecodeError",
        <<"UnicodeError", "ValueError", "Exception", "BaseException">>,
        "'utf-8' codec can't decode byte 0xff in position 0: invalid start byte"),
     derived_exception("AddressValueError", <<"ValueError", "Exception", "BaseException">>,
        "Address cannot be empty"),
     derived_exception("UnsupportedOperation",
        <<"OSError", "ValueError", "Exception", "BaseException">>, "fileno"),
     derived_exception("RouteNotFound", <<"ValueError", "Exception", "BaseException">>,
        "No route between the points"),
     builtin_exception("RuntimeError", "Routing service unavailable"),
     builtin_exception("RuntimeError", ""),
     builtin_exception("KeyError", "'routes'"),
     derived_exception("RoutingError", <<"Exception", "BaseException">>, "Graph not loaded"),
     derived_exception("SystemExit", <<"BaseException">>, "1"),
     derived_exception("KeyboardInterrupt", <<"BaseException">>, "")}

\* The scores of a result: well formed; without a ranking of its own; a
\* ranking that names a route the scores do not list; a route without a
\* name or without a score; a score that is text, null, a float, a
\* mapping or a list.
ResilienceScoresObjects ==
    {[routes |-> <<[route_name |-> "Route 1", overall_resilience_score |-> [int |-> 80]],
                   [route_name |-> "Route 2", overall_resilience_score |-> [int |-> 60]]>>,
      ranked_routes |-> <<"Route 1", "Route 2">>, best_route_name |-> "Route 1"],
     [routes |-> <<[route_name |-> "Route 1", overall_resilience_score |-> [int |-> 80]]>>],
     [routes |-> <<[route_name |-> "Route 1", overall_resilience_score |-> [int |-> 80]]>>,
      ranked_routes |-> <<"Route 2">>],
     [routes |-> <<[overall_resilience_score |-> [int |-> 80]]>>,
      ranked_routes |-> <<"Route 1">>],
     [routes |-> <<[route_name |-> "Route 1"]>>, ranked_routes |-> <<"Route 1">>],
     [routes |-> <<[route_name |-> "Route 2"], [overall_resilience_score |-> [int |-> 80]]>>,
      ranked_routes |-> <<"Route 2", "Route 1">>],
     [routes |-> <<[route_name |-> "Route 1", overall_resilience_score |-> [str |-> "80"]]>>,
      ranked_routes |-> <<"Route 1">>],
     [routes |-> <<[route_name |-> "Route 1", overall_resilience_score |-> JsonNull]>>,
      ranked_routes |-> <<"Route 1">>],
     [routes |-> <<[route_name |-> "Route 1", overall_resilience_score |-> [float |-> D(161, 2)]]>>,
      ranked_routes |-> <<"Route 1">>],
     [routes |-> <<[route_name |-> "Route 1",
                    overall_resilience_score |-> [object |-> [a |-> [int |-> 1]]]]>>,
      ranked_routes |-> <<"Route 1">>],
     [routes |-> <<[route_name |-> "Route 1",
                    overall_resilience_score |-> [array |-> <<[int |-> 80]>>]]>>,
      ranked_routes |-> <<"Route 1">>]}

\* What analyze_routes returns: a complete result whose resilience_scores
\* are a mapping, text, a number, a list, null or absent; or a result with
\* an error.
SystemResults ==
    {[routes |-> <<"Route 1", "Route 2">>, resilience_scores |-> s,
      analysis_complete |-> TRUE] :
        s \in {[object |-> o] : o \in ResilienceScoresObjects}
               \cup {[str |-> "scores"], [str |-> ""], JsonNull, [int |-> 80], [int |-> 0],
                     [array |-> <<[int |-> 80]>>], [object |-> EmptyDict]}}
    \cup {[routes |-> <<"Route 1">>, analysis_complete |-> TRUE],
          [error |-> ErrorMessage("No routes found", <<>>), routes |-> <<>>,
           resilience_scores |-> JsonNull, analysis_complete |-> FALSE],
          [error |-> ErrorMessage("No routes found", <<>>), routes |-> <<>>,
           resilience_scores |-> [str |-> "scores"], analysis_complete |-> FALSE]}

\* What the collaborator does when reached: its constructor raises, its
\* analyze_routes raises, or analyze_routes returns a result, complete or
\* with an error.
SystemBehaviours ==
    {[does |-> d, exception |-> e] :
        d \in {"init raises", "analyze_routes raises"}, e \in SystemExceptions}
    \cup {[does |-> "returns", result |-> r] : r \in SystemResults}

InitRun ==
    /\ run_args \in LatVals \X LngVals \X LatVals \X LngVals
    /\ run_pc = "start"
    /\ run_system = NoValue
    /\ run_calls = <<>>
    /\ run_result = NoValue
    /\ NoScoring
    /\ NoAnalysis
    /\ NoSegmentation
    /\ NoWeather
    /\ NoRoads
    /\ NoApi
    /\ NoScorer
    /\ NoSummary
    /\ NoNews

\* run_analysis(origin_lat, origin_lng, dest_lat, dest_lng)
RunAnalysis ==
    /\ run_pc = "start"
    /\ \E system \in SystemBehaviours :
       \E r \in {run_analysis(run_args[1], run_args[2], run_args[3], run_args[4], system)} :
            /\ run_result' = r.result
            /\ run_calls' = r.calls
            /\ run_system' = system
    /\ run_pc' = "done"
    /\ UNCHANGED run_args
    /\ UNCHANGED <<scoring_vars, analysis_vars, seg_vars, weather_vars, road_vars, api_vars, scorer_vars, summary_vars, news_vars>>

NextRun == RunAnalysis

SpecRun == InitRun /\ [][NextRun]_vars

(***************************************************************************)
(* GeminiResilienceScorer.score_routes on a batch of routes                *)
(***************************************************************************)
ScorerScoreKeys ==
    {"weather_risk_score", "road_safety_score", "social_risk_score",
     "traffic_risk_score", "overall_resilience_score"}

\* Scores of a response: in range, at 0, out of range, floats at a tie
\* (85.5 and 84.5), text that is a number and text that is none, a number
\* beyond the floats, NaN, booleans, null, a list and a mapping.
ScoreJson ==
    {[int |-> 0], [int |-> -5], [int |-> 85], [float |-> D(171, 2)],
     [float |-> D(169, 2)], [str |-> "high"], [str |-> "85", number |-> [int |-> 85]],
     [inf |-> TRUE], [inf |-> FALSE], [nan |-> TRUE], [bool |-> TRUE], [bool |-> FALSE],
     JsonNull, [array |-> <<[int |-> 85]>>], [a |-> [int |-> 1]]}
\* The coarse grid of scores: in range or above it (or missing).
CoarseScoreJson == {[int |-> 85], [int |-> 150]}

\* The routes of a response: any subset of the scores on the coarse grid, or
\* every score at 50 but one.
ResponseRoutes ==
    UNION {{[k \in S \cup {"route_name"} |-> IF k = "route_name" THEN "Route 1" ELSE g[k]] :
              g \in [S -> CoarseScoreJson]} : S \in SUBSET ScorerScoreKeys}
    \cup {[k \in ScorerScoreKeys \cup {"route_name"} |->
              IF k = "route_name" THEN name ELSE IF k = key THEN v ELSE [int |-> 50]] :
            key \in ScorerScoreKeys, v \in ScoreJson, name \in {"Route 1"}}
    \cup {[route_name |-> "Route 9"], [route_name |-> "Route 2"], [route_name |-> ""],
          [weather_risk_score |-> [int |-> 20]]}

\* The JSON objects of a response: one route; no routes; a route that is
\* not an object (text, a number, null, a list), alone or after one that
\* is; a ranking and a selection of its own.
ResponseObjects ==
    {[routes |-> <<r>>] : r \in ResponseRoutes}
    \cup {[routes |-> <<>>],
          [best_route_name |-> "Route 1"],
          [routes |-> <<[str |-> "Route 1"]>>],
          [routes |-> <<[int |-> 5]>>],
          [routes |-> <<[float |-> D(1, 2)]>>],
          [routes |-> <<JsonNull>>],
          [routes |-> <<[array |-> <<>>]>>],
          [routes |-> <<[route_name |-> "Route 1"], [int |-> 5]>>],
          [routes |-> <<[route_name |-> "Route 1", overall_resilience_score |-> [int |-> 85]]>>,
           ranked_routes |-> <<"Route 2", "Route 1">>, best_route_name |-> "Route 2",
           reason_for_selection |-> "Shortest"]}

ResponseTexts ==
    {[form |-> "empty"], [form |-> "prose"], [form |-> "broken"],
     [form |-> "json", value |-> [array |-> <<[int |-> 1]>>]]}
    \cup {[form |-> "json", value |-> [object |-> o]] : o \in ResponseObjects}
    \cup {[form |-> f, value |-> [object |-> [routes |-> <<[route_name |-> "Route 1",
                                      overall_resilience_score |-> [int |-> 85]]>>]]] :
            f \in {"fenced", "embedded"} \cup RepairedForms}

\* The routes_data of score_routes: a named route with and without a
\* social_risk, one whose social_risk is beyond the floats, routes without
\* a route_name, and a route with the fields the prompt is built from.
ScorerRoutes ==
    {<<[route_name |-> "Route 1", social_risk |-> [int |-> 30]]>>,
     <<[route_name |-> "Route 1"]>>,
     <<[route_name |-> "Route 1", social_risk |-> [inf |-> TRUE]]>>,
     <<[social_risk |-> [int |-> 85]]>>,
     <<[social_risk |-> [int |-> 20]], [social_risk |-> [int |-> 85]]>>,
     <<[route_name |-> "Route 1", distance_m |-> [int |-> 120000],
        predicted_duration_min |-> [float |-> D(181, 2)],
        weather |-> [rainfall_mm |-> [float |-> D(5, 2)], windspeed |-> [int |-> 12]],
        social_risk |-> [float |-> D(61, 2)], political_risk |-> [int |-> 40]]>>}

\* Routes the prompt cannot be built from: a social_risk that is text or
\* null, a distance that is text, a weather that is null, a rainfall that
\* is text, after a route that is well formed or alone.
UnpromptableRoutes ==
    {<<[route_name |-> "Route 1", social_risk |-> [str |-> "high"]]>>,
     <<[route_name |-> "Route 1", social_risk |-> JsonNull]>>,
     <<[route_name |-> "Route 1"], [route_name |-> "Route 2", distance_m |-> [str |-> "120 km"]]>>,
     <<[route_name |-> "Route 1", weather |-> JsonNull]>>,
     <<[route_name |-> "Route 1", weather |-> [rainfall_mm |-> [str |-> "heavy"]]]>>}

\* The user_priorities of score_routes: weights, no weights, and weights of
\* which one is text, which .2f cannot format.
ScorerPriorities ==
    {[time |-> [float |-> D(1, 2)], distance |-> [float |-> D(1, 4)],
      safety |-> [float |-> D(1, 4)], carbon_emission |-> [int |-> 0]],
     EmptyDict,
     [time |-> [str |-> "high"]]}

\* generate_content raises (as does response.text), or brings a text.
LlmOutcomes == {[raises |-> TRUE]} \cup {[text |-> t] : t \in ResponseTexts}

\* score_routes(routes_data) and score_routes(routes_data, user_priorities)
InitScorer ==
    /\ sc_model \in BOOLEAN
    /\ \/ /\ sc_routes \in ScorerRoutes \cup UnpromptableRoutes
          /\ sc_priorities = JsonNull
       \/ /\ sc_routes = <<[route_name |-> "Route 1", social_risk |-> [int |-> 30]]>>
          /\ sc_priorities \in ScorerPriorities
    /\ sc_pc = "start"
    /\ sc_attempt = 0
    /\ llm_calls = <<>>
    /\ sleeps = <<>>
    /\ sc_result = NoValue
    /\ NoScoring
    /\ NoAnalysis
    /\ NoSegmentation
    /\ NoWeather
    /\ NoRoads
    /\ NoRun
    /\ NoApi
    /\ NoSummary
    /\ NoNews

\* score_routes(routes_data, user_priorities) up to the retry loop: None
\* without a model, and None from the exception handler when the prompt
\* cannot be built.
ScoreRoutes ==
    /\ sc_pc = "start"
    /\ IF ~sc_model \/ build_prompt_raises(sc_routes, sc_priorities)
       THEN sc_result' = NoneResult /\ sc_pc' = "done"
       ELSE sc_pc' = "attempt" /\ UNCHANGED sc_result
    /\ UNCHANGED <<sc_model, sc_routes, sc_priorities, sc_attempt, llm_calls, sleeps>>
    /\ UNCHANGED <<scoring_vars, analysis_vars, seg_vars, weather_vars, road_vars, run_vars, api_vars, summary_vars, news_vars>>

\* One pass of the retry loop: generate_content raises, and score_routes
\* sleeps before the next pass or gives up after the last; or it brings a
\* text, and score_routes parses and validates it and returns.
GenerateContent ==
    /\ sc_pc = "attempt"
    /\ sc_attempt < max_retries
    /\ \E outcome \in LlmOutcomes :
        /\ llm_calls' = Append(llm_calls, outcome)
        /\ IF "raises" \in DOMAIN outcome
           THEN IF sc_attempt < max_retries - 1
                THEN /\ sleeps' = Append(sleeps, backoff_seconds(sc_attempt))
                     /\ sc_attempt' = sc_attempt + 1
                     /\ UNCHANGED <<sc_pc, sc_result>>
                ELSE /\ sc_result' = NoneResult
                     /\ sc_pc' = "done"
                     /\ UNCHANGED <<sleeps, sc_attempt>>
           ELSE /\ sc_result' = after_response(outcome.text, sc_routes)
                /\ sc_pc' = "done"
                /\ UNCHANGED <<sleeps, sc_attempt>>
    /\ UNCHANGED <<sc_model, sc_routes, sc_priorities>>
    /\ UNCHANGED <<scoring_vars, analysis_vars, seg_vars, weather_vars, road_vars, run_vars, api_vars, summary_vars, news_vars>>

NextScorer ==
    \/ ScoreRoutes
    \/ GenerateContent

SpecScorer == InitScorer /\ [][NextScorer]_vars

(***************************************************************************)
(* _get_sample_coordinates asked for two or more samples                   *)
(***************************************************************************)
\* The largest number of samples asked for.
MaxSamples == 7

InitSampling ==
    /\ w_segments \in UNION {[1..n -> WeatherSegments] : n \in 1..MaxSegments}
    /\ w_pc = "sampling"
    /\ num_samples \in 2..MaxSamples
    /\ sample_coords = <<>>
    /\ outcomes = <<>>
    /\ requests = <<>>
    /\ weather_data = <<>>
    /\ weather_result = NoValue
    /\ NoScoring
    /\ NoAnalysis
    /\ NoSegmentation
    /\ NoRoads
    /\ NoRun
    /\ NoApi
    /\ NoScorer
    /\ NoSummary
    /\ NoNews

\* self._get_sample_coordinates(segments, num_samples)
GetSampleCoordinates ==
    /\ w_pc = "sampling"
    /\ sample_coords' = get_sample_coordinates(w_segments, num_samples)
    /\ w_pc' = "sampled"
    /\ UNCHANGED <<w_segments, num_samples, outcomes, requests, weather_data, weather_result>>
    /\ UNCHANGED <<scoring_vars, analysis_vars, seg_vars, road_vars, run_vars, api_vars, scorer_vars, summary_vars, news_vars>>

NextSampling == GetSampleCoordinates

SpecSampling == InitSampling /\ [][NextSampling]_vars

(***************************************************************************)
(* DistanceAnalyzer feeding ResilienceCalculator                           *)
(***************************************************************************)
\* The largest batch of routes scored from their distances.
MaxScoredRoutes == 3

\* Batches of up to MaxScoredRoutes routes of equal duration and any
\* distances.
ScoredBatches ==
    UNION {[1..n -> DistanceVals] : n \in 1..MaxScoredRoutes}

\* Priorities: equal weights; distance alone; no weight on distance; a sum
\* far from 1.0; and a sum of 1.005, within the tolerance of 1.0.
ScoredPriorities ==
    {EqualWeights,
     [time |-> Zero, distance |-> One, carbon_emission |-> Zero, road_quality |-> Zero],
     [time |-> R(1, 2), distance |-> Zero, carbon_emission |-> R(1, 4), road_quality |-> R(1, 4)],
     [time |-> R(2, 1), distance |-> R(2, 1), carbon_emission |-> Zero, road_quality |-> Zero],
     [time |-> R(1, 2), distance |-> R(5, 1000), carbon_emission |-> R(1, 4), road_quality |-> R(1, 4)]}

InitScored ==
    /\ \E d \in ScoredBatches :
          an_routes = [i \in 1..Len(d) |->
                          [route_name |-> RouteNames[i], duration_s |-> Int2R(3600),
                           distance_m |-> d[i]]]
    /\ an_pc = "start"
    /\ time_results = NoValue
    /\ distance_results = NoValue
    /\ carbon_results = NoValue
    /\ routes_data = <<>>
    /\ routes_data0 = <<>>
    /\ priorities \in ScoredPriorities
    /\ fed = <<>>
    /\ pc = "idle"
    /\ weights = NoValue
    /\ results = NoValue
    /\ formatted = NoValue
    /\ rescored = NoValue
    /\ calls = <<>>
    /\ NoSegmentation
    /\ NoWeather
    /\ NoRoads
    /\ NoRun
    /\ NoApi
    /\ NoScorer
    /\ NoSummary
    /\ NoNews

\* The score mapping built from an analyzer's results.
scores_of(analysis, key) ==
    [name \in {analysis[i].route_name : i \in 1..Len(analysis)} |->
        (CHOOSE r \in {analysis[i] : i \in 1..Len(analysis)} : r.route_name = name)[key]]

\* calculator.calculate(names, time_scores, distance_scores, carbon_scores,
\* road_quality_scores, priorities) on the analyzers' results, the carbon and
\* the road-quality scores being the same for every route: all 1.0, all 0.8,
\* or all missing.
CalculateScored ==
    /\ an_pc = "distance"
    /\ pc = "idle"
    /\ \E common \in {[name \in {an_routes[i].route_name : i \in 1..Len(an_routes)} |-> c] :
                        c \in {One, R(4, 5)}} \cup {EmptyDict} :
          /\ weights' = priority_values(priorities)
          /\ results' = calculate([i \in 1..Len(an_routes) |-> an_routes[i].route_name],
                                  scores_of(time_results, "time_score"),
                                  scores_of(distance_results, "distance_score"),
                                  common, common, priorities)
    /\ pc' = "calculated"
    /\ UNCHANGED <<routes_data, routes_data0, priorities, formatted, fed, rescored, calls>>
    /\ UNCHANGED <<analysis_vars, seg_vars, weather_vars, road_vars, run_vars, api_vars, scorer_vars, summary_vars, news_vars>>

NextScored ==
    \/ AnalyzeTime
    \/ AnalyzeDistance
    \/ CalculateScored

SpecScored == InitScored /\ [][NextScored]_vars

(***************************************************************************)
(* analyze_routes_api on a request, and the three entry points together    *)
(***************************************************************************)
\* What SupplyChainReroutingSystem does when reached: as RouteAnalysisSystem
\* does, or its analyze_routes returns a result json.dumps cannot encode.
ApiBehaviours ==
    SystemBehaviours \cup {[does |-> "returns unserializable"]}

InitApi ==
    /\ api_pc = "start"
    /\ api_system = NoValue
    /\ api_calls = <<>>
    /\ api_result = NoValue
    /\ NoScoring
    /\ NoAnalysis
    /\ NoSegmentation
    /\ NoWeather
    /\ NoRoads
    /\ NoRun
    /\ NoScorer
    /\ NoSummary
    /\ NoNews

\* analyze_routes_api(source_lat, source_lon, dest_lat, dest_lon, ...)
AnalyzeRoutesApi ==
    /\ api_pc = "start"
    /\ \E system \in ApiBehaviours :
       \E r \in {analyze_routes_api(system)} :
            /\ api_result' = r.result
            /\ api_calls' = r.calls
            /\ api_system' = system
    /\ api_pc' = "done"
    /\ UNCHANGED <<scoring_vars, analysis_vars, seg_vars, weather_vars, road_vars, run_vars, scorer_vars, summary_vars, news_vars>>

\* The entry points a caller reaches: run_analysis, rescore_routes and
\* analyze_routes_api, each on its own request.
InitEntryPoints == InitRun \/ Init \/ InitApi

NextEntryPoints == RunAnalysis \/ RescoreRoutes \/ AnalyzeRoutesApi

SpecEntryPoints == InitEntryPoints /\ [][NextEntryPoints]_vars

(***************************************************************************)
(* Properties of the ResilienceCalculator and of rescore_routes            *)
(***************************************************************************)
Calculated == pc \in {"calculated", "formatted"} \/ (pc = "rescored" /\ results # NoValue)
Rescored == pc = "rescored" /\ rescored.analysis_complete

\* A priority mapping with the four keys, non-negative values, non-zero sum.
ValidPriorities(p) ==
    /\ IsMapping(p)
    /\ DOMAIN p = {"time", "distance", "carbon_emission", "road_quality"}
    /\ \A k \in DOMAIN p : p[k][1] >= 0
    /\ RSumValues(p) # Zero

WeightSum(w) == RAdd(RAdd(RAdd(w.time, w.distance), w.carbon), w.road_quality)

Tolerance == R(1, 1000000000)
Near(a, b) == RLe(RAbs(RSub(a, b)), Tolerance)

InUnit(x) == x[1] >= 0 /\ x[1] <= x[2]

\* C1: after calculate, for every four-key priority mapping with non-negative
\* values and a non-zero sum, whatever the sum, the four weights multiplied
\* with the component scores sum to 1.0 within 1e-9.
C1_WeightsSumToOne ==
    (Calculated /\ ValidPriorities(priorities)) => Near(WeightSum(weights), One)

\* C2: after calculate, for every route: each weighted contribution is
\* weight x component score, the overall score is 100 x the sum of the four
\* contributions, and with component scores in [0,1] it lies in [0,100].
C2_OverallIsWeightedSum ==
    (Calculated /\ ValidPriorities(priorities)) =>
        \A i \in 1..Len(results) :
            LET r == results[i]
                c == r.component_scores
                k == r.weighted_contributions
            IN  /\ k.time = RMul(weights.time, c.time_score)
                /\ k.distance = RMul(weights.distance, c.distance_score)
                /\ k.carbon = RMul(weights.carbon, c.carbon_score)
                /\ k.road_quality = RMul(weights.road_quality, c.road_quality_score)
                /\ Near(r.overall_resilience_score,
                        RMul(Hundred, RAdd(RAdd(RAdd(k.time, k.distance), k.carbon),
                                           k.road_quality)))
                /\ (InUnit(c.time_score) /\ InUnit(c.distance_score)
                      /\ InUnit(c.carbon_score) /\ InUnit(c.road_quality_score))
                     => (RLe(Zero, r.overall_resilience_score)
                         /\ RLe(r.overall_resilience_score, Hundred))

\* The place of a route name in the input list.
InputIndex(names, name) == CHOOSE i \in 1..Len(names) : names[i] = name

\* C4: calculate returns one result per entry of the input list (a
\* permutation of it), in non-increasing order of overall score, and routes
\* with equal overall score keep their input order.
C4_RankingStable ==
    Calculated =>
        LET names == route_names(routes_data)
        IN  /\ Len(results) = Len(names)
            /\ \A i \in 1..Len(names) :
                  Cardinality({k \in 1..Len(results) : results[k].route_name = names[i]}) = 1
            /\ \A k \in 1..Len(results) :
                  \A m \in 1..Len(results) :
                     k < m =>
                        /\ RLe(results[m].overall_resilience_score,
                               results[k].overall_resilience_score)
                        /\ results[m].overall_resilience_score = results[k].overall_resilience_score
                             => InputIndex(names, results[k].route_name)
                                  < InputIndex(names, results[m].route_name)

\* Two routes tie on the overall score with different component scores.
C4_Witness ==
    /\ pc = "calculated"
    /\ Len(results) = 2
    /\ results[1].overall_resilience_score = results[2].overall_resilience_score
    /\ results[1].component_scores # results[2].component_scores

\* The overall score of the result with the given name.
ScoreOf(res, name) ==
    res[CHOOSE i \in 1..Len(res) : res[i].route_name = name].overall_resilience_score

\* C5: rescore_routes calls no routing, weather, road-network, news or LLM
\* collaborator on any path, and on success the scores it returns are those
\* of calculate applied to the component scores stored on the routes and the
\* new priorities.
C5_RescoreIsLocal ==
    /\ \A i \in 1..Len(calls) : calls[i] \notin Collaborators
    /\ pc = "rescored" =>
          IF fed = <<>> \/ ~IsMapping(priorities)
          THEN ~rescored.analysis_complete /\ rescored.resilience_scores = None
          ELSE /\ rescored.analysis_complete
               /\ rescored.resilience_scores.routes =
                     calculate(route_names(fed),
                               CarriedScores(fed, "time_score"),
                               CarriedScores(fed, "distance_score"),
                               CarriedScores(fed, "carbon_score"),
                               CarriedScores(fed, "road_quality_score"),
                               priorities)
               /\ \A i \in 1..Len(rescored.routes) :
                     rescored.routes[i].overall_resilience_score =
                        ScoreOf(rescored.resilience_scores.routes, fed[i].route_name)

\* A successful rescoring of two routes.
C5_Witness ==
    /\ Rescored
    /\ Len(fed) >= 2
    /\ calls # <<>>
    /\ rescored.resilience_scores.ranked_routes # route_names(fed)

ResultKeys == {"overall_resilience_score", "component_scores", "weighted_contributions"}

\* C6: rescore_routes leaves the caller's list and route mappings unchanged;
\* the returned routes are copies in input order that carry the new overall
\* score; rescoring routes that an earlier rescoring (with other priorities)
\* returned gives the same scores and ranking as rescoring the original
\* routes.
C6_RescoreDependsOnStoredScores ==
    /\ routes_data = routes_data0
    /\ Rescored =>
          /\ Len(rescored.routes) = Len(fed)
          /\ \A i \in 1..Len(fed) :
                /\ DOMAIN rescored.routes[i] = (DOMAIN fed[i]) \cup ResultKeys
                /\ \A k \in (DOMAIN fed[i]) \ ResultKeys : rescored.routes[i][k] = fed[i][k]
                /\ rescored.routes[i].overall_resilience_score =
                      ScoreOf(rescored.resilience_scores.routes, fed[i].route_name)
          /\ \E direct \in {rescore_routes(routes_data0, priorities).result} :
                /\ rescored.resilience_scores = direct.resilience_scores
                /\ \A i \in 1..Len(fed) :
                      rescored.routes[i].overall_resilience_score =
                         direct.routes[i].overall_resilience_score

\* Routes returned by an earlier rescoring were rescored.
C6_Witness ==
    /\ Rescored
    /\ fed # routes_data0
    /\ Len(fed) >= 2
    /\ \E i \in 1..Len(fed) :
          fed[i].overall_resilience_score # rescored.routes[i].overall_resilience_score

\* C7: when the priority weights sum to 0, each dimension is weighted 0.25
\* and the overall score is 25 x the sum of the four component scores.
C7_ZeroSumEqualWeights ==
    (Calculated /\ IsMapping(priorities) /\ RSumValues(priorities) = Zero) =>
        /\ weights = [time |-> R(1, 4), distance |-> R(1, 4),
                      carbon |-> R(1, 4), road_quality |-> R(1, 4)]
        /\ \A i \in 1..Len(results) :
              LET c == results[i].component_scores
              IN  results[i].overall_resilience_score =
                     RMul(R(25, 1), RAdd(RAdd(RAdd(c.time_score, c.distance_score),
                                              c.carbon_score), c.road_quality_score))

C7_Witness ==
    /\ pc = "calculated"
    /\ IsMapping(priorities)
    /\ \A k \in DOMAIN priorities : priorities[k] = Zero
    /\ Len(results) = 1
    /\ results[1].overall_resilience_score = R(75, 1)

\* The component scores a result must show for a route mapping: the stored
\* value, and 0.5 where none is stored.
ExpectedScores(route) ==
    [k \in ScoreKeys |-> IF k \in DOMAIN route THEN route[k] ELSE R(1, 2)]

ShowsExpectedScores(res, routes) ==
    \A i \in 1..Len(res) :
        \E route \in {routes[InputIndex(route_names(routes), res[i].route_name)]} :
            \A k \in ScoreKeys : res[i].component_scores[k] = ExpectedScores(route)[k]

\* C8: a route without an entry in one of the four score mappings is scored
\* with 0.5 for that dimension, by calculate and by rescore_routes; its other
\* dimensions and the other routes keep their stored scores.
C8_MissingScoreIsHalf ==
    /\ Calculated => ShowsExpectedScores(results, routes_data)
    /\ Rescored =>
          /\ ShowsExpectedScores(rescored.resilience_scores.routes, fed)
          /\ \A i \in 1..Len(fed) :
                \A k \in ScoreKeys :
                   rescored.routes[i].component_scores[k] = ExpectedScores(fed[i])[k]

\* Scored by the calculator and rescored: one route lacks a stored score,
\* the other has all four.
C8_Witness ==
    /\ Calculated
    /\ Rescored
    /\ Len(routes_data) = 2
    /\ "time_score" \notin DOMAIN routes_data[1]
    /\ "distance_score" \in DOMAIN routes_data[1]
    /\ ScoreKeys \subseteq DOMAIN routes_data[2]

RationalePhrases ==
    <<[key |-> "time_score", phrase |-> "excellent time efficiency"],
      [key |-> "distance_score", phrase |-> "shortest distance"],
      [key |-> "carbon_score", phrase |-> "lowest carbon emissions"],
      [key |-> "road_quality_score", phrase |-> "superior road conditions"]>>

\* score > 0.8
Above80(score) == 5 * score[1] > 4 * score[2]

PhraseIndex(phrase) == CHOOSE i \in 1..4 : RationalePhrases[i].phrase = phrase

FormatMatches(f, res) ==
    IF res = <<>>
    THEN /\ f.best_route_name = None
         /\ f.reason_for_selection.text = "No routes available"
         /\ f.ranked_routes = <<>>
    ELSE /\ f.best_route_name = res[1].route_name
         /\ f.ranked_routes = [i \in 1..Len(res) |-> res[i].route_name]
         /\ \E parts \in {f.reason_for_selection.parts} :
               /\ \A i \in 1..4 :
                     (\E n \in 1..Len(parts) : parts[n] = RationalePhrases[i].phrase)
                        <=> Above80(res[1].component_scores[RationalePhrases[i].key])
               /\ \A n \in 1..Len(parts) : \A m \in 1..Len(parts) :
                     n < m => PhraseIndex(parts[n]) < PhraseIndex(parts[m])
               /\ (f.reason_for_selection.text = "Best overall balance of all factors")
                     <=> (\A i \in 1..4 :
                            ~Above80(res[1].component_scores[RationalePhrases[i].key]))
               /\ (f.reason_for_selection.text = "Best route due to: ")
                     <=> (\E i \in 1..4 :
                            Above80(res[1].component_scores[RationalePhrases[i].key]))

\* C9: format_results names the top-ranked result as best route and lists
\* the names in result order; the rationale names exactly the dimensions
\* whose score for the top route is strictly above 0.8, in the order time,
\* distance, carbon, road, and is the fallback exactly when there is none;
\* no results give best_route_name None and 'No routes available'.
C9_FormatResults ==
    /\ pc = "formatted" => FormatMatches(formatted, results)
    /\ Rescored => FormatMatches(rescored.resilience_scores, rescored.resilience_scores.routes)

\* The top route scores exactly 0.8 on time and above 0.8 on distance.
C9_Witness ==
    /\ pc = "formatted"
    /\ Len(results) >= 1
    /\ results[1].component_scores.time_score = R(4, 5)
    /\ results[1].component_scores.distance_score = One
    /\ formatted.reason_for_selection.parts = <<"shortest distance">>

(***************************************************************************)
(* Properties of the analyzers                                             *)
(***************************************************************************)
AllEqual(raw) == \A i, j \in 1..Len(raw) : raw[i] = raw[j]

\* scores are min-max normalised and inverted from raw: each in [0,1]; all
\* 1.0 when the raw values are all equal; else 1.0 at the smallest raw value
\* and 0.0 at the largest.
InvertedMinMax(raw, scores) ==
    /\ Len(scores) = Len(raw)
    /\ \A i \in 1..Len(raw) :
        /\ InUnit(scores[i])
        /\ AllEqual(raw) => scores[i] = One
        /\ (~AllEqual(raw) /\ \A j \in 1..Len(raw) : RLe(raw[i], raw[j])) => scores[i] = One
        /\ (~AllEqual(raw) /\ \A j \in 1..Len(raw) : RLe(raw[j], raw[i])) => scores[i] = Zero

RawDurations == [i \in 1..Len(an_routes) |-> an_routes[i].duration_s]
RawDistances == [i \in 1..Len(an_routes) |-> an_routes[i].distance_m]
RawCarbon == [i \in 1..Len(carbon_results) |-> carbon_results[i].total_carbon_kg]

\* C3: for a non-empty batch, the time, distance and carbon scores each lie
\* in [0,1]; when the raw values of a dimension are not all equal, the routes
\* with the smallest raw value score 1.0 and those with the largest 0.0; when
\* they are all equal (a batch of one route included) every route scores 1.0.
C3_ScoresNormalised ==
    an_routes # <<>> =>
        /\ an_pc \in {"time", "distance", "carbon"} =>
              InvertedMinMax(RawDurations,
                  [i \in 1..Len(time_results) |-> time_results[i].time_score])
        /\ an_pc \in {"distance", "carbon"} =>
              InvertedMinMax(RawDistances,
                  [i \in 1..Len(distance_results) |-> distance_results[i].distance_score])
        /\ an_pc = "carbon" =>
              /\ Len(carbon_results) = Len(an_routes)
              /\ InvertedMinMax(RawCarbon,
                  [i \in 1..Len(carbon_results) |-> carbon_results[i].carbon_score])

\* All three analyzers have run on two routes of the same duration whose
\* emissions differ, one of them computed from its road segments.
C3_Witness ==
    /\ an_pc = "carbon"
    /\ Len(an_routes) = 2
    /\ AllEqual(RawDurations)
    /\ ~AllEqual(RawCarbon)
    /\ ~AllEqual(RawDistances)
    /\ \E i \in 1..2 : "road_segments" \in DOMAIN an_routes[i]
                         /\ an_routes[i].road_segments # <<>>
    /\ time_results[1].time_score = One
    /\ \E i \in 1..2 : carbon_results[i].carbon_score = Zero

(***************************************************************************)
(* Properties of the segmenter                                             *)
(***************************************************************************)
IsOrigin(loc) == loc.lat = 0 /\ loc.lng = 0

\* A step whose start and end coordinates are both present and neither is
\* exactly (lat 0, lng 0).
HasUsableCoordinates(step) ==
    /\ "start_location" \in DOMAIN step
    /\ "end_location" \in DOMAIN step
    /\ ~IsOrigin(step.start_location)
    /\ ~IsOrigin(step.end_location)

RECURSIVE UsableSteps(_)
UsableSteps(steps) ==
    IF steps = <<>> THEN <<>>
    ELSE IF HasUsableCoordinates(Head(steps))
         THEN <<Head(steps)>> \o UsableSteps(Tail(steps))
         ELSE UsableSteps(Tail(steps))

\* C10: extract_segments skips a step exactly when its start or end
\* coordinate is missing or is exactly (0,0); every other step gives one
\* segment, from its start to its end, in step order.
C10_SkipsOnlyMissingOrOrigin ==
    seg_pc = "extracted" =>
        LET kept == UsableSteps(Get(seg_route, "steps", <<>>))
        IN  /\ Len(seg_result.segments) = Len(kept)
            /\ \A i \in 1..Len(kept) :
                /\ seg_result.segments[i].start =
                      <<kept[i].start_location.lat, kept[i].start_location.lng>>
                /\ seg_result.segments[i].end =
                      <<kept[i].end_location.lat, kept[i].end_location.lng>>

SegSteps == Get(seg_route, "steps", <<>>)

\* The segment runs from the start to the end of the step.
DerivedFrom(segment, step) ==
    /\ "start_location" \in DOMAIN step
    /\ "end_location" \in DOMAIN step
    /\ segment.start = <<step.start_location.lat, step.start_location.lng>>
    /\ segment.end = <<step.end_location.lat, step.end_location.lng>>

\* The segments are derived from steps picked in step order.
RECURSIVE InStepOrder(_, _)
InStepOrder(segments, steps) ==
    IF segments = <<>> THEN TRUE
    ELSE IF steps = <<>> THEN FALSE
    ELSE IF DerivedFrom(Head(segments), Head(steps))
         THEN InStepOrder(Tail(segments), Tail(steps))
         ELSE InStepOrder(segments, Tail(steps))

\* C11: the segments returned by extract_segments are numbered 0, 1, ..,
\* n-1 without gaps, a skipped step using up no number, and they come in
\* the order of the steps they were derived from.
C11_DenseIdsInStepOrder ==
    seg_pc = "extracted" =>
        /\ \A i \in 1..Len(seg_result.segments) :
              seg_result.segments[i].segment_id = i - 1
        /\ InStepOrder(seg_result.segments, SegSteps)

\* Two steps, the first skipped, the second giving segment 0.
C11_Witness ==
    /\ seg_pc = "extracted"
    /\ Len(SegSteps) = 2
    /\ Len(seg_result.segments) = 1
    /\ DerivedFrom(seg_result.segments[1], SegSteps[2])
    /\ ~DerivedFrom(seg_result.segments[1], SegSteps[1])
    /\ seg_result.segments[1].segment_id = 0

SegLengths == {seg_result.segments[i].length_m : i \in 1..Len(seg_result.segments)}

\* C12: with no steps, or every step skipped, extract_segments returns no
\* segment and max and min length 0; otherwise max and min are the largest
\* and the smallest length_m of the returned segments, and min <= max.
C12_MaxMinLengths ==
    seg_pc = "extracted" =>
        IF seg_result.segments = <<>>
        THEN seg_result.max_length_m = 0 /\ seg_result.min_length_m = 0
        ELSE /\ seg_result.max_length_m \in SegLengths
             /\ seg_result.min_length_m \in SegLengths
             /\ \A l \in SegLengths :
                    seg_result.min_length_m <= l /\ l <= seg_result.max_length_m
             /\ seg_result.min_length_m <= seg_result.max_length_m

\* Two segments, the longer one first.
C12_Witness ==
    /\ seg_pc = "extracted"
    /\ Len(seg_result.segments) = 2
    /\ seg_result.segments[2].length_m < seg_result.segments[1].length_m
    /\ seg_result.max_length_m = seg_result.segments[1].length_m
    /\ seg_result.min_length_m = seg_result.segments[2].length_m

(***************************************************************************)
(* Properties of the WeatherAnalyzer                                       *)
(***************************************************************************)
\* The weather values an entry must show for the outcome of its lookup.
ShowsOutcome(entry, outcome) ==
    IF ~outcome.ok
    THEN /\ entry.rainfall_mm = Zero
         /\ entry.visibility_m = Int2R(10000)
         /\ entry.windspeed = Int2R(5)
         /\ entry.temperature = Int2R(20)
         /\ entry.cloudcover = 30
    ELSE /\ entry.rainfall_mm = Get(outcome.current, "precipitation", Zero)
         /\ entry.windspeed = Get(outcome.current, "windspeed_10m", Zero)
         /\ entry.temperature = Get(outcome.current, "temperature_2m", Int2R(15))

\* C13: the weather service is asked exactly once for each sample point, in
\* sample order, whether the lookup fails or not; a sample whose lookup
\* failed takes the default values and every other sample the values of its
\* own response; analyze returns one entry per sample coordinate, in sample
\* order.
C13_OneLookupPerSample ==
    /\ Len(outcomes) = Len(weather_data)
    /\ requests = [i \in 1..Len(weather_data) |-> sample_coords[i]]
    /\ \A i \in 1..Len(weather_data) :
        /\ weather_data[i].sample_id = i - 1
        /\ weather_data[i].location = sample_coords[i]
        /\ ShowsOutcome(weather_data[i], outcomes[i])
    /\ (w_pc = "done" /\ w_segments # <<>>) =>
        /\ weather_result.weather_data = weather_data
        /\ Len(weather_result.weather_data) = Len(sample_coords)

\* analyze has returned for two sample points: the first lookup failed, the
\* second brought 25 mm of rain.
C13_Witness ==
    /\ w_pc = "done"
    /\ Len(sample_coords) = 2
    /\ ~outcomes[1].ok
    /\ outcomes[2].ok
    /\ Len(requests) = 2
    /\ weather_result.weather_data[1].windspeed = Int2R(5)
    /\ weather_result.weather_data[2].rainfall_mm = Int2R(25)

\* C14: whatever precipitation and wind the lookups return, visibility_risk,
\* rain_risk and wind_risk are each in [0,1] and avg_weather_risk is their
\* unweighted mean, in [0,1] too.
C14_RisksInUnit ==
    (w_pc = "done" /\ w_segments # <<>>) =>
        /\ InUnit(weather_result.visibility_risk)
        /\ InUnit(weather_result.rain_risk)
        /\ InUnit(weather_result.wind_risk)
        /\ InUnit(weather_result.avg_weather_risk)
        /\ RMul(Int2R(3), weather_result.avg_weather_risk) =
              RAdd(RAdd(weather_result.visibility_risk, weather_result.rain_risk),
                   weather_result.wind_risk)

\* C15: for a non-empty list of segments the sampler is asked for
\* max(1, floor(total_km / 50)) samples; asked for one, it returns exactly
\* one sample, the midpoint of the segment at index floor(n / 2) of the n
\* segments.
C15_SingleSampleAtMiddleSegment ==
    (w_pc \in {"fetching", "done"} /\ w_segments # <<>>) =>
        LET whole_intervals == total_length_m(w_segments) \div 50000
            middle == w_segments[(Len(w_segments) \div 2) + 1]
        IN  /\ num_samples = IF whole_intervals >= 1 THEN whole_intervals ELSE 1
            /\ num_samples = 1 =>
                 sample_coords = << <<D(middle.start[1] + middle.end[1], 2),
                                      D(middle.start[2] + middle.end[2], 2)>> >>

\* Two segments of 30 km in all: one sample, at the midpoint of the second
\* segment, which is not the midpoint of the first; and one segment alone.
C15_Witness ==
    /\ w_pc = "done"
    /\ Len(w_segments) = 2
    /\ total_length_m(w_segments) = 30000
    /\ num_samples = 1
    /\ Len(sample_coords) = 1
    /\ sample_coords[1] = <<D(w_segments[2].start[1] + w_segments[2].end[1], 2),
                            D(w_segments[2].start[2] + w_segments[2].end[2], 2)>>
    /\ sample_coords[1] # <<D(w_segments[1].start[1] + w_segments[1].end[1], 2),
                            D(w_segments[1].start[2] + w_segments[1].end[2], 2)>>

(***************************************************************************)
(* Properties of the RoadAnalyzer                                          *)
(***************************************************************************)
\* The road type, base quality and width of a segment of the given length.
LengthClass(length_m) ==
    IF length_m > 10000
    THEN [road_type |-> "motorway", base_quality |-> 90, road_width |-> 12]
    ELSE IF 5000 < length_m /\ length_m <= 10000
    THEN [road_type |-> "primary", base_quality |-> 80, road_width |-> 9]
    ELSE IF 2000 < length_m /\ length_m <= 5000
    THEN [road_type |-> "secondary", base_quality |-> 70, road_width |-> 7]
    ELSE [road_type |-> "tertiary", base_quality |-> 60, road_width |-> 6]

\* C16: without the external lookup a segment is classified by its length,
\* motorway above 10000 m, primary above 5000 m up to 10000 m, secondary
\* above 2000 m up to 5000 m, tertiary up to 2000 m, and gets the base
\* quality 90 / 80 / 70 / 60 and the road width of its class.
C16_LengthFallbackClasses ==
    (r_pc = "done" /\ ~osmnx_available) =>
        \A i \in 1..Len(road_results) :
            \A j \in 1..Len(road_results[i].road_segments) :
                LET segment == road_results[i].road_segments[j]
                    class == LengthClass(segment.length_m)
                IN  /\ segment.road_type = class.road_type
                    /\ segment.base_quality = class.base_quality
                    /\ segment.road_width = class.road_width

\* Segments of 10000 m and 10001 m, classified primary and motorway.
C16_Witness ==
    /\ r_pc = "done"
    /\ ~osmnx_available
    /\ Len(road_results) = 1
    /\ Len(road_results[1].road_segments) = 2
    /\ road_results[1].road_segments[1].length_m = 10000
    /\ road_results[1].road_segments[1].road_type = "primary"
    /\ road_results[1].road_segments[2].length_m = 10001
    /\ road_results[1].road_segments[2].road_type = "motorway"

\* The length-weighted mean of max(0, base_quality - 100 x risk) over the
\* segments, divided by 100 and clamped to [0,1]; 0.5 without length.
ExpectedRoadQuality(segments, risk) ==
    LET n == Len(segments)
        total == RSumOver([j \in 1..n |-> Int2R(segments[j].length_m)], 1..n)
        weighted == RSumOver([j \in 1..n |->
                        RMul(RMax(Zero, RSub(Int2R(segments[j].base_quality),
                                             RMul(Hundred, risk))),
                             Int2R(segments[j].length_m))], 1..n)
    IN  IF RLt(Zero, total)
        THEN RMax(Zero, RMin(One, RDiv(RDiv(weighted, total), Hundred)))
        ELSE R(1, 2)

\* C17: the road_quality_score of a route with segments is the
\* length-weighted mean of max(0, base_quality - 100 x avg_weather_risk),
\* divided by 100 and clamped to [0,1], and 0.5 when the total length is 0;
\* it is in [0,1], and under a larger weather risk it is never larger.
C17_RoadQualityScore ==
    r_pc = "done" =>
        \A i \in 1..Len(road_results) :
            LET result == road_results[i]
            IN  /\ InUnit(result.road_quality_score)
                /\ result.road_segments # <<>> =>
                    /\ result.road_quality_score =
                          ExpectedRoadQuality(result.road_segments, result.avg_weather_risk)
                    /\ \A risk \in RiskVals :
                          RLe(result.avg_weather_risk, risk) =>
                              RLe(road_quality_score(result.road_segments, risk),
                                  result.road_quality_score)

\* A short tertiary and a longer primary segment under a weather risk of
\* 0.65: the tertiary segment counts 0, the score is 15003/140020.
C17_Witness ==
    /\ r_pc = "done"
    /\ Len(road_results) = 1
    /\ Len(road_results[1].road_segments) = 2
    /\ road_results[1].road_segments[1].length_m = 2000
    /\ road_results[1].road_segments[2].length_m = 5001
    /\ road_results[1].avg_weather_risk = R(13, 20)
    /\ road_results[1].road_quality_score = R(15003, 140020)

\* C18: analyze returns one result per route, in input order; a route with
\* segments is scored under the weather result at its own index (no weather
\* risk when there is none at that index), and a route without segments
\* gets the default result whatever its weather result says.
C18_OneResultPerRoute ==
    r_pc = "done" =>
        /\ Len(road_results) = Len(pre_extracted_segments)
        /\ \A i \in 1..Len(road_results) :
            /\ road_results[i].route_name = pre_extracted_segments[i][1]
            /\ IF pre_extracted_segments[i][2] = <<>>
               THEN /\ road_results[i].road_quality_score = R(1, 2)
                    /\ road_results[i].avg_weather_risk = R(1, 2)
                    /\ road_results[i].road_segments = <<>>
                    /\ DOMAIN road_results[i].road_type_distribution = {}
               ELSE /\ Len(road_results[i].road_segments) = Len(pre_extracted_segments[i][2])
                    /\ road_results[i].avg_weather_risk =
                          IF i <= Len(weather_results)
                          THEN Get(weather_results[i], "avg_weather_risk", Zero)
                          ELSE Zero

\* Two routes with two different weather results: the first route has no
\* segments and gets the default result, the second is scored under the
\* second weather result.
C18_Witness ==
    /\ r_pc = "done"
    /\ Len(road_results) = 2
    /\ Len(weather_results) = 2
    /\ road_results[1].road_segments = <<>>
    /\ road_results[1].avg_weather_risk = R(1, 2)
    /\ road_results[2].road_segments # <<>>
    /\ weather_results[1] = RoadWeather(R(3, 10))
    /\ weather_results[2] = RoadWeather(R(13, 20))
    /\ road_results[2].avg_weather_risk = R(13, 20)

(***************************************************************************)
(* Properties of the CarbonAnalyzer                                        *)
(***************************************************************************)
\* The distance the emissions of a route are to be computed from, in metres.
EmissionDistance(route) ==
    IF "road_segments" \in DOMAIN route /\ Len(route.road_segments) > 0
    THEN RSumOver([j \in 1..Len(route.road_segments) |->
                      Get(route.road_segments[j], "length_m", Zero)],
                  1..Len(route.road_segments))
    ELSE route.distance_m

\* C19: a route's emissions are distance_km x 0.8 x 1.2 x 1.0, the distance
\* being the sum of its road_segments' length_m when it has a non-empty
\* road_segments list and its distance_m otherwise; carbon_per_km is 0 when
\* that distance is 0; a route with a strictly smaller distance never has a
\* lower carbon_score than one with a larger distance.
C19_CarbonFromSegmentsOrDistance ==
    an_pc = "carbon" =>
        /\ \A i \in 1..Len(an_routes) :
            /\ carbon_results[i].route_name = an_routes[i].route_name
            /\ carbon_results[i].total_carbon_kg =
                  RMul(RDiv(EmissionDistance(an_routes[i]), Int2R(1000)), R(96, 100))
            /\ EmissionDistance(an_routes[i]) = Zero =>
                  carbon_results[i].carbon_per_km = Zero
        /\ \A i, j \in 1..Len(an_routes) :
              RLt(EmissionDistance(an_routes[i]), EmissionDistance(an_routes[j])) =>
                  RLe(carbon_results[j].carbon_score, carbon_results[i].carbon_score)

\* Two routes whose segments say otherwise than their distance_m: the first
\* has one segment without length (distance 0) and distance_m 200 km, the
\* second segments of 150 km and distance_m 100 km.
C19_Witness ==
    /\ an_pc = "carbon"
    /\ Len(an_routes) = 2
    /\ an_routes[1].distance_m = Int2R(200000)
    /\ an_routes[2].distance_m = Int2R(100000)
    /\ "road_segments" \in DOMAIN an_routes[1]
    /\ "road_segments" \in DOMAIN an_routes[2]
    /\ EmissionDistance(an_routes[1]) = Zero
    /\ EmissionDistance(an_routes[2]) = Int2R(150000)
    /\ carbon_results[1].carbon_per_km = Zero
    /\ carbon_results[1].carbon_score = One
    /\ carbon_results[2].carbon_score = Zero
    /\ carbon_results[2].total_carbon_kg = Int2R(144)

(***************************************************************************)
(* Properties of run_analysis                                              *)
(***************************************************************************)
\* A latitude within [-90,90] with a longitude within [-180,180].
InRange(lat, lng) == lat \in -90..90 /\ lng \in -180..180

\* C20: with the origin or the destination latitude outside [-90,90] or
\* longitude outside [-180,180], run_analysis returns an error string,
\* routes = [], resilience_scores = None and analysis_complete = false
\* without initialising the analysis system or calling any collaborator;
\* with all four within the ranges, -90, 90, -180 and 180 included, the
\* coordinates are accepted and the analysis system is initialised.
C20_CoordinatesValidated ==
    run_pc = "done" =>
        IF InRange(run_args[1], run_args[2]) /\ InRange(run_args[3], run_args[4])
        THEN /\ run_calls # <<>>
             /\ run_calls[1] = "RouteAnalysisSystem"
        ELSE /\ run_calls = <<>>
             /\ "error" \in DOMAIN run_result
             /\ run_result.error.text # ""
             /\ run_result.routes = <<>>
             /\ run_result.resilience_scores = None
             /\ run_result.analysis_complete = FALSE

\* The origin sits on the limits (90, -180) and the destination latitude is
\* 91: the error names the destination and nothing was called.
C20_Witness ==
    /\ run_pc = "done"
    /\ run_args = <<90, -180, 91, 180>>
    /\ run_calls = <<>>
    /\ run_result.error =
          ErrorMessage("Validation error: Invalid destination coordinates: ", <<91, 180>>)
    /\ run_result.analysis_complete = FALSE

(***************************************************************************)
(* Properties of the entry points' error handling                          *)
(***************************************************************************)
\* The names of the classes an exception is an instance of.
ClassesOf(exception) == {exception.mro[i] : i \in 1..Len(exception.mro)}

\* The error string run_analysis is to return for an exception: str(e),
\* after "Validation error: " for a ValueError of any kind.
ExpectedRunError(exception) ==
    IF "ValueError" \in ClassesOf(exception)
    THEN "Validation error: " \o exception.message
    ELSE exception.message

\* The collaborator raised inside the call.
RaisedBySystem(system, system_calls) ==
    /\ system_calls # <<>>
    /\ system.does \in {"init raises", "analyze_routes raises"}

\* The collaborator raised an exception that is no Exception.
RaisedNoException(system, system_calls) ==
    /\ RaisedBySystem(system, system_calls)
    /\ "Exception" \notin ClassesOf(system.exception)

\* A structured result that carries an error and analysis_complete = false.
IsErrorResult(result) ==
    /\ DOMAIN result = {"error", "routes", "resilience_scores", "analysis_complete"}
    /\ result.analysis_complete = FALSE

\* An exception was raised inside the call: by the validation, by the
\* collaborator once reached, or by json.dumps.
RaisedInside(system, system_calls) ==
    \/ system_calls = <<>>
    \/ system.does \in {"init raises", "analyze_routes raises", "returns unserializable"}

\* run_analysis raised while it logged the result of analyze_routes.
RaisedLogging ==
    /\ run_calls = <<"RouteAnalysisSystem", "analyze_routes">>
    /\ run_system.does = "returns"
    /\ log_summary_raises(run_system.result) # NoException

\* C21 as stated: whatever exception is raised inside run_analysis,
\* rescore_routes or analyze_routes_api, the call returns (never raises to
\* its caller) a structured result that carries an error string and
\* analysis_complete = false (analyze_routes_api as JSON text);
\* rescore_routes with an empty routes list returns such a result too.
C21_WhateverException ==
    /\ (run_pc = "done" /\ (RaisedInside(run_system, run_calls) \/ RaisedLogging))
           => (IsErrorResult(run_result) /\ DOMAIN run_result.error = {"text", "args"})
    /\ (api_pc = "done" /\ RaisedInside(api_system, api_calls))
           => (DOMAIN api_result = {"json"} /\ IsErrorResult(api_result.json))
    /\ (pc = "rescored" /\ (fed = <<>> \/ ~IsMapping(priorities)))
           => IsErrorResult(rescored)
    /\ (pc = "rescored" /\ fed = <<>>)
           => (rescored.error = "No routes data provided" /\ rescored.routes = <<>>)

\* C21, amended: whatever exception that is an instance of Exception is
\* raised inside run_analysis, rescore_routes or analyze_routes_api
\* (subclasses of ValueError included, with a message or with none), the
\* call returns a structured result that carries an error string and
\* analysis_complete = false (analyze_routes_api as JSON text); the error
\* string of run_analysis is str(e), which may be empty, prefixed for a
\* ValueError of any kind; rescore_routes with an empty routes list returns
\* such a result too.
C21_ErrorsAreReturned ==
    /\ (run_pc = "done" /\ (RaisedInside(run_system, run_calls) \/ RaisedLogging)
          /\ ~RaisedNoException(run_system, run_calls))
           => (IsErrorResult(run_result) /\ DOMAIN run_result.error = {"text", "args"})
    /\ (run_pc = "done" /\ RaisedBySystem(run_system, run_calls)
          /\ ~RaisedNoException(run_system, run_calls))
           => run_result.error.text = ExpectedRunError(run_system.exception)
    /\ (api_pc = "done" /\ RaisedInside(api_system, api_calls)
          /\ ~RaisedNoException(api_system, api_calls))
           => (DOMAIN api_result = {"json"} /\ IsErrorResult(api_result.json))
    /\ (pc = "rescored" /\ (fed = <<>> \/ ~IsMapping(priorities)))
           => IsErrorResult(rescored)
    /\ (pc = "rescored" /\ fed = <<>>)
           => (rescored.error = "No routes data provided" /\ rescored.routes = <<>>)

\* analyze_routes raised an exception of a class derived from ValueError
\* inside run_analysis, which returned the error result with the prefixed
\* message.
C21_Witness ==
    /\ run_pc = "done"
    /\ run_calls = <<"RouteAnalysisSystem", "analyze_routes">>
    /\ run_system.does = "analyze_routes raises"
    /\ run_system.exception.class = "JSONDecodeError"
    /\ run_result.error.text =
          "Validation error: Expecting value: line 1 column 1 (char 0)"
    /\ run_result.routes = <<>>
    /\ run_result.analysis_complete = FALSE

(***************************************************************************)
(* Properties of the ranking by distance                                   *)
(***************************************************************************)
\* The ranking goes by distance_score descending.
RankedByDistanceScore(ranking) ==
    \A k \in 1..(Len(ranking) - 1) :
        RLe(ranking[k + 1].component_scores.distance_score,
            ranking[k].component_scores.distance_score)

\* C25: distances 100000, 150000 and 200000 m get distance scores 1.0, 0.5
\* and 0.0; and when the time, carbon and road-quality scores are equal
\* across the routes and the distance weight is positive, the ranking
\* returned by calculate orders the routes by distance_score descending.
C25_RankedByDistance ==
    /\ (distance_results # NoValue /\ Len(an_routes) = 3
          /\ [i \in 1..3 |-> an_routes[i].distance_m]
                 = <<Int2R(100000), Int2R(150000), Int2R(200000)>>)
           => [i \in 1..3 |-> distance_results[i].distance_score] = <<One, R(1, 2), Zero>>
    /\ (an_pc = "distance" /\ pc = "calculated" /\ RLt(Zero, priorities.distance))
           => RankedByDistanceScore(results)

(***************************************************************************)
(* Properties of the sampler asked for two or more samples                 *)
(***************************************************************************)
\* C28: asked for num_samples >= 2 on segments of positive total length, the
\* sampler returns exactly num_samples points, the first being the start of
\* the first segment.
C28_ExactlyNumSamples ==
    (w_pc = "sampled" /\ total_length_m(w_segments) > 0) =>
        /\ Len(sample_coords) = num_samples
        /\ sample_coords[1] = <<FromInt(w_segments[1].start[1]), FromInt(w_segments[1].start[2])>>

(***************************************************************************)
(* Properties of the osmnx_enabled override                                *)
(***************************************************************************)
\* The mode the instance is in after the calls made so far: that of the
\* latest call that passed an override, or the availability detected at
\* import if no call passed one.
RECURSIVE ModeAfter(_)
ModeAfter(enabled_args) ==
    IF enabled_args = <<>> THEN OSMNX_AVAILABLE
    ELSE IF enabled_args[Len(enabled_args)] = "None"
    THEN ModeAfter(SubSeq(enabled_args, 1, Len(enabled_args) - 1))
    ELSE enabled_args[Len(enabled_args)] = "True"

\* The latest call classified its segments by external lookup (of the
\* recorded outcomes) or by the length heuristic.
ClassifiedInMode(lookup) ==
    /\ lookup <=> (osm_lookups # <<>>)
    /\ \A i \in 1..Len(road_results) :
          \A j \in 1..Len(road_results[i].road_segments) :
              road_results[i].road_segments[j].road_type =
                  IF lookup THEN get_osmnx_road_type(osm_lookups[i][j])
                  ELSE estimate_road_type(road_results[i].road_segments[j].length_m)

\* C30: the override stays on the instance: every analyze call classifies
\* in the mode of the latest call that passed a non-None osmnx_enabled
\* (with empty segment input or not), and by the availability detected at
\* import only if no call passed one.
C30_OverridePersists ==
    r_pc = "done" =>
        /\ osmnx_available = ModeAfter(road_calls)
        /\ pre_extracted_segments # <<>> => ClassifiedInMode(ModeAfter(road_calls))

\* A call with empty input passed an override that differs from the
\* detected availability, and a later call with osmnx_enabled = None
\* classified a segment in the overridden mode.
C30_Witness ==
    /\ r_pc = "done"
    /\ Len(road_calls) = 3
    /\ road_calls[2] # "None" /\ (road_calls[2] = "True") # OSMNX_AVAILABLE
    /\ road_calls[3] = "None"
    /\ osmnx_enabled = "None"
    /\ pre_extracted_segments # <<>>
    /\ osmnx_available = (road_calls[2] = "True")
    /\ ClassifiedInMode(road_calls[2] = "True")

(***************************************************************************)
(* Properties of GeminiResilienceScorer.score_routes                       *)
(***************************************************************************)
LlmFailures == {k \in 1..Len(llm_calls) : "raises" \in DOMAIN llm_calls[k]}

\* C22: score_routes calls the LLM at most 3 times; every call but the
\* latest has failed (attempt k+1 follows a failed attempt k, nothing
\* follows a success); it has slept 1 s after the first failure and 3 s
\* after the second (1 + 2 x attempt) and not after the third; and once it
\* has called, it returns only after a success or the third failure.
C22_RetrySchedule ==
    /\ Len(llm_calls) <= 3
    /\ \A k \in 1..(Len(llm_calls) - 1) : k \in LlmFailures
    /\ sleeps = [k \in 1..(IF Cardinality(LlmFailures) < 3 THEN Cardinality(LlmFailures) ELSE 2) |->
                    1 + 2 * (k - 1)]
    /\ (sc_pc = "done" /\ llm_calls # <<>>) =>
          (Len(llm_calls) = 3 \/ Len(llm_calls) \notin LlmFailures)
    /\ (sc_pc = "attempt") => LlmFailures = 1..Len(llm_calls)

\* Two failures, slept 1 s and 3 s, then a third call that succeeded.
C22_Witness ==
    /\ sc_pc = "done"
    /\ Len(llm_calls) = 3
    /\ LlmFailures = {1, 2}
    /\ sleeps = <<1, 3>>
    /\ sc_result # NoneResult

\* Every score of every route of a result is an integer in 0..100.
ScoresValidated(result) ==
    \A i \in 1..Len(result.routes) :
        \A k \in ScorerScoreKeys :
            result.routes[i][k] \in 0..100

\* The cases in which score_routes is to return None: the model is not
\* initialised, all 3 attempts failed, the response text is empty, or no
\* JSON object can be parsed from it.
ReturnsNoneCase ==
    \/ ~sc_model
    \/ LlmFailures = 1..3
    \/ /\ llm_calls # <<>>
       /\ "text" \in DOMAIN llm_calls[Len(llm_calls)]
       /\ \/ llm_calls[Len(llm_calls)].text.form \in {"empty", "prose", "broken"}
          \/ "object" \notin DOMAIN llm_calls[Len(llm_calls)].text.value

\* C27: score_routes returns None when the model is not initialised
\* (without a call to the LLM), when all 3 attempts fail, when the response
\* text is empty or when no JSON object can be parsed from it; otherwise it
\* returns a validated result in which every score of every route is an
\* integer in [0,100].
C27_NoneOrValidated ==
    sc_pc = "done" =>
        /\ ~sc_model => llm_calls = <<>>
        /\ IF ReturnsNoneCase THEN sc_result = NoneResult
           ELSE sc_result # NoneResult /\ ScoresValidated(sc_result)

(***************************************************************************)
(* gemini_summary.generate_summary and its response cache                  *)
(***************************************************************************)
\* The strings of the requests in Python's order (by code point).
StringOrder == <<"Route 1", "Route 2", "flood", "strike">>

string_rank(s) == CHOOSE i \in 1..Len(StringOrder) : StringOrder[i] = s

RECURSIVE insert_sorted(_, _)
insert_sorted(sorted_seq, x) ==
    IF sorted_seq = <<>> THEN <<x>>
    ELSE IF x < Head(sorted_seq) THEN <<x>> \o sorted_seq
    ELSE <<Head(sorted_seq)>> \o insert_sorted(Tail(sorted_seq), x)

\* sorted(seq) of integers
RECURSIVE sorted_ints(_)
sorted_ints(seq) ==
    IF seq = <<>> THEN <<>>
    ELSE insert_sorted(sorted_ints(SubSeq(seq, 1, Len(seq) - 1)), seq[Len(seq)])

\* sorted(seq) of strings
sorted_strings(seq) ==
    [i \in 1..Len(seq) |->
        StringOrder[sorted_ints([j \in 1..Len(seq) |-> string_rank(seq[j])])[i]]]

\* news_articles or []
articles_of(news_articles) ==
    IF IsNone(news_articles) THEN <<>> ELSE news_articles.list

\* The request signature that is hashed into cache_key. md5 and the join of
\* the titles are one-to-one on the requests here (no title has a comma), so
\* the key is the signature itself.
cache_key(request) ==
    [routes |-> sorted_strings([i \in 1..Len(request.routes_data) |->
                                    request.routes_data[i].route_name]),
     scores |-> sorted_ints([i \in 1..Len(request.routes_data) |->
                                    request.routes_data[i].overall_resilience_score]),
     origin |-> request.overall_context.origin,
     destination |-> request.overall_context.destination,
     news_hash |-> sorted_strings([i \in 1..Len(articles_of(request.news_articles)) |->
                                    articles_of(request.news_articles)[i].title]),
     is_reroute |-> ~IsNone(request.previous_route_data)]

\* news_articles and len(news_articles) > 0
include_news(request) == Len(articles_of(request.news_articles)) > 0

\* The content of CACHE_FILE: [content |-> the mapping] when it is a JSON
\* document, [torn |-> "empty"] once open(CACHE_FILE, 'w') has truncated it,
\* [torn |-> "mixed"] when two dumps have overlapped in it.  A file that
\* does not exist or cannot be parsed loads as the empty mapping.
load_cache(file) == IF "content" \in DOMAIN file THEN file.content ELSE EmptyDict

get_neutral_sentiment(reason) ==
    [sentiment_score |-> [float |-> D(1, 2)], risk_factors |-> <<>>,
     positive_factors |-> <<>>, reasoning |-> reason, article_sentiments |-> <<>>]

\* What generate_summary returns without a key and from its except branch.
summary_fallback(reason) ==
    [routes |-> EmptyDict, news_sentiment |-> get_neutral_sentiment(reason),
     comparison_report |-> JsonNull]

\* The text of a response after the code fences are cut off goes through
\* json.loads: a JSON document, bare or in a fence, parses; anything else
\* (no text, prose, prose around a document) raises.
summary_parses(text) == text.form \in {"json", "fenced_json", "fenced"}

\* result after "if 'routes' not in result"
parsed_result(obj) == IF "routes" \in DOMAIN obj THEN obj ELSE [routes |-> obj]

setdefault(d, k, v) == IF k \in DOMAIN d THEN d ELSE Put(d, k, v)

\* float(val) raises: for text that is no number, null, a list, a dict.
float_raises(val) == "raises" \in DOMAIN py_float(val)

\* float(val) where it is finite
to_float(val) == py_float(val).float

FLt(a, b) == ~FLe(b, a)

\* min(1.0, x): x when x < 1.0, else 1.0 (so for NaN and Infinity too);
\* [inf |-> FALSE] for -Infinity.
min_1(val) ==
    IF "nan" \in DOMAIN py_float(val) THEN [float |-> FromInt(1)]
    ELSE IF "inf" \in DOMAIN py_float(val)
    THEN (IF py_float(val).inf THEN [float |-> FromInt(1)] ELSE [inf |-> FALSE])
    ELSE IF FLt(to_float(val), FromInt(1)) THEN [float |-> to_float(val)]
    ELSE [float |-> FromInt(1)]

\* max(0.0, min(1.0, float(sentiment_score))): x when x > 0.0, else 0.0
clamp_sentiment(val) ==
    IF "inf" \in DOMAIN min_1(val) THEN FZero
    ELSE IF FLt(FZero, min_1(val).float) THEN min_1(val).float ELSE FZero

sentiment_score_of(news_sentiment) ==
    Get(news_sentiment, "sentiment_score", [float |-> D(1, 2)])

\* The branch "if include_news and 'news_sentiment' in result"
validated_sentiment(news_sentiment) ==
    setdefault(setdefault(setdefault(setdefault(
        Put(news_sentiment, "sentiment_score",
            [float |-> clamp_sentiment(sentiment_score_of(news_sentiment))]),
        "risk_factors", <<>>), "positive_factors", <<>>),
        "reasoning", ErrorMessage("Analysis completed", <<>>)), "article_sentiments", <<>>)

sentiment_checked(request, result) ==
    include_news(request) /\ "news_sentiment" \in DOMAIN result

news_sentiment_of(request, result) ==
    IF sentiment_checked(request, result)
    THEN validated_sentiment(result.news_sentiment)
    ELSE Get(result, "news_sentiment",
             get_neutral_sentiment(ErrorMessage("No news provided", <<>>)))

comparison_report_of(request, result) ==
    IF IsNone(request.previous_route_data) THEN JsonNull
    ELSE Get(result, "comparison_report", JsonNull)

response_data(request, result) ==
    [routes |-> result.routes,
     news_sentiment |-> news_sentiment_of(request, result),
     comparison_report |-> comparison_report_of(request, result)]

\* comparison_report.get('summary', 'N/A')[:100], evaluated when the report
\* is truthy, raises: the report is no dict, or its summary is neither text
\* nor a list.
report_logging_raises(comparison_report) ==
    /\ truthy(comparison_report)
    /\ \/ ~IsJsonObject(comparison_report)
       \/ type_name(Get(mapping_of(comparison_report), "summary", [str |-> "N/A"]))
              \notin {"str", "list"}

\* What raises between json.loads and the cache: .get on a news_sentiment
\* that is no dict, float() of its score, the logging of a comparison
\* report, .items() on routes that are no dict.
processing_raises(request, result) ==
    \/ /\ sentiment_checked(request, result)
       /\ \/ ~IsJsonObject(result.news_sentiment)
          \/ float_raises(sentiment_score_of(result.news_sentiment))
    \/ report_logging_raises(comparison_report_of(request, result))
    \/ ~IsJsonObject(result.routes)

\* The building of the prompt raises: in a reroute it reads
\* previous_route_data.get('sentiment_analysis', {}).get(...) and
\* previous_route_data.get('resilience_scores', {}).get(...); the first of
\* the three that is no dict gives the AttributeError.  (The routes of the
\* request are mappings with a name and an integer score, its context a
\* mapping and its articles mappings with a title that is text: reading
\* them raises nothing.)
prompt_raises(request) ==
    IF IsNone(request.previous_route_data) THEN NoException
    ELSE IF ~IsJsonObject(request.previous_route_data)
    THEN no_attribute_get(request.previous_route_data)
    ELSE IF ~IsJsonObject(Get(request.previous_route_data, "sentiment_analysis", EmptyDict))
    THEN no_attribute_get(request.previous_route_data.sentiment_analysis)
    ELSE IF ~IsJsonObject(Get(request.previous_route_data, "resilience_scores", EmptyDict))
    THEN no_attribute_get(request.previous_route_data.resilience_scores)
    ELSE NoException

SummaryCachingErrors(request, behaviour) == [data |-> summary_fallback(ErrorMessage("Error: {}", <<"any">>))]

\* generate_summary from model.generate_content(prompt) to response_data:
\* [data |-> response_data], or [raises |-> str(e)] for its except branch.
summary_after_call(request, behaviour) ==
    IF "raises" \in DOMAIN behaviour THEN [raises |-> behaviour.raises]
    ELSE IF ~summary_parses(behaviour.text) THEN [raises |-> "Expecting value"]
    ELSE IF "object" \notin DOMAIN behaviour.text.value THEN [raises |-> "has no attribute 'get'"]
    ELSE IF processing_raises(request, parsed_result(behaviour.text.value.object))
    THEN [raises |-> "processing"]
    ELSE [data |-> response_data(request, parsed_result(behaviour.text.value.object))]

\* The entries of a cache mapping
entries_of(cache_data) == {[key |-> k, value |-> cache_data[k]] : k \in DOMAIN cache_data}

OtherGroupsOfSummary == <<scoring_vars, analysis_vars, seg_vars, weather_vars, road_vars, run_vars, api_vars, scorer_vars, news_vars>>

\* generate_summary up to the cache check: without a key the fallback; a
\* hit returns the entry; a miss keeps the loaded cache_data.
SummaryStart ==
    /\ \E p \in DOMAIN sm_pc :
        /\ sm_pc[p] = "start"
        /\ IF ~sm_api_key[p]
           THEN /\ sm_result' = [sm_result EXCEPT ![p] =
                        summary_fallback(ErrorMessage("API key not found", <<>>))]
                /\ sm_source' = [sm_source EXCEPT ![p] = "fallback"]
                /\ sm_pc' = [sm_pc EXCEPT ![p] = "done"]
                /\ UNCHANGED sm_cache_data
           ELSE IF cache_key(sm_request[p]) \in DOMAIN load_cache(cache_file)
           THEN /\ sm_result' = [sm_result EXCEPT ![p] =
                        load_cache(cache_file)[cache_key(sm_request[p])]]
                /\ sm_source' = [sm_source EXCEPT ![p] = "cache"]
                /\ sm_pc' = [sm_pc EXCEPT ![p] = "done"]
                /\ UNCHANGED sm_cache_data
           ELSE /\ sm_cache_data' = [sm_cache_data EXCEPT ![p] = load_cache(cache_file)]
                /\ sm_pc' = [sm_pc EXCEPT ![p] = "miss"]
                /\ UNCHANGED <<sm_result, sm_source>>
    /\ UNCHANGED <<sm_request, sm_api_key, sm_behaviour, sm_llm, cache_file, cache_stored, sm_dumped, sm_calls>>
    /\ UNCHANGED OtherGroupsOfSummary

\* From the miss to response_data: the building of the prompt, the one
\* generate_content call, the parsing and the processing of the response,
\* or the except branch (without a call, when building the prompt raises).
SummaryGenerate ==
    /\ \E p \in DOMAIN sm_pc :
        /\ sm_pc[p] = "miss"
        /\ IF prompt_raises(sm_request[p]) # NoException
           THEN /\ sm_result' = [sm_result EXCEPT ![p] =
                        summary_fallback(ErrorMessage("Error: {}",
                            <<prompt_raises(sm_request[p]).message>>))]
                /\ sm_source' = [sm_source EXCEPT ![p] = "fallback"]
                /\ sm_pc' = [sm_pc EXCEPT ![p] = "done"]
                /\ UNCHANGED sm_llm
           ELSE IF "raises" \in DOMAIN summary_after_call(sm_request[p], sm_behaviour[p])
           THEN /\ sm_llm' = [sm_llm EXCEPT ![p] = Append(sm_llm[p], sm_behaviour[p])]
                /\ sm_result' = [sm_result EXCEPT ![p] =
                        summary_fallback(ErrorMessage("Error: {}",
                            <<summary_after_call(sm_request[p], sm_behaviour[p]).raises>>))]
                /\ sm_source' = [sm_source EXCEPT ![p] = "fallback"]
                /\ sm_pc' = [sm_pc EXCEPT ![p] = "done"]
           ELSE /\ sm_llm' = [sm_llm EXCEPT ![p] = Append(sm_llm[p], sm_behaviour[p])]
                /\ sm_result' = [sm_result EXCEPT ![p] =
                        summary_after_call(sm_request[p], sm_behaviour[p]).data]
                /\ sm_pc' = [sm_pc EXCEPT ![p] = "save"]
                /\ UNCHANGED sm_source
    /\ UNCHANGED <<sm_request, sm_api_key, sm_behaviour, sm_cache_data, cache_file, cache_stored, sm_dumped, sm_calls>>
    /\ UNCHANGED OtherGroupsOfSummary

\* cache_data[cache_key] = response_data and open(CACHE_FILE, 'w'), which
\* truncates the file.
SummaryOpenCache ==
    /\ \E p \in DOMAIN sm_pc :
        /\ sm_pc[p] = "save"
        /\ sm_cache_data' = [sm_cache_data EXCEPT ![p] =
                Put(sm_cache_data[p], cache_key(sm_request[p]), sm_result[p])]
        /\ cache_file' = [torn |-> "empty"]
        /\ sm_pc' = [sm_pc EXCEPT ![p] = "dump"]
    /\ UNCHANGED <<sm_request, sm_api_key, sm_behaviour, sm_source, sm_llm, sm_result, cache_stored, sm_dumped, sm_calls>>
    /\ UNCHANGED OtherGroupsOfSummary

\* json.dump(cache_data, f) and the return of response_data.  The dump
\* writes from offset 0: into the file as this call truncated it, it leaves
\* this call's cache_data; over what another call has written since, it
\* leaves this call's cache_data or, when that is shorter, a mix of both.
SummaryDump ==
    /\ \E p \in DOMAIN sm_pc :
        /\ sm_pc[p] = "dump"
        /\ \E written \in (IF "torn" \in DOMAIN cache_file /\ cache_file.torn = "empty"
                           THEN {[content |-> sm_cache_data[p]]}
                           ELSE {[content |-> sm_cache_data[p]], [torn |-> "mixed"]}) :
            /\ cache_file' = written
            /\ cache_stored' = cache_stored \cup entries_of(load_cache(written))
            /\ sm_dumped' = [sm_dumped EXCEPT ![p] = Append(sm_dumped[p], sm_cache_data[p])]
        /\ sm_source' = [sm_source EXCEPT ![p] = "llm"]
        /\ sm_pc' = [sm_pc EXCEPT ![p] = "done"]
    /\ UNCHANGED <<sm_request, sm_api_key, sm_behaviour, sm_cache_data, sm_llm, sm_result, sm_calls>>
    /\ UNCHANGED OtherGroupsOfSummary

\* Inputs: the routes of a request in both orders, with no news (None or
\* []), with two headlines in both orders, and as a reroute after a route
\* analysed in full.
SummaryRoutes ==
    <<[route_name |-> "Route 1", overall_resilience_score |-> 80],
      [route_name |-> "Route 2", overall_resilience_score |-> 60]>>

SummaryRequest(routes, news, previous) ==
    [routes_data |-> routes, overall_context |-> [origin |-> "Pune", destination |-> "Mumbai"],
     news_articles |-> news, previous_route_data |-> previous]

Headlines == [list |-> <<[title |-> "flood"], [title |-> "strike"]>>]

SummaryRequests ==
    {SummaryRequest(SummaryRoutes, JsonNull, JsonNull),
     SummaryRequest(<<SummaryRoutes[2], SummaryRoutes[1]>>, [list |-> <<>>], JsonNull),
     SummaryRequest(SummaryRoutes, Headlines, JsonNull),
     SummaryRequest(SummaryRoutes, [list |-> <<Headlines.list[2], Headlines.list[1]>>], JsonNull),
     SummaryRequest(SummaryRoutes, Headlines,
        [route_name |-> "Route 0",
         sentiment_analysis |-> [sentiment_score |-> [float |-> D(2, 5)]],
         resilience_scores |-> [overall |-> [int |-> 70]]])}

\* Reroutes after a route whose sentiment analysis or scores are null: the
\* prompt cannot be built for them.
UnpromptableRequests ==
    {SummaryRequest(SummaryRoutes, Headlines,
        [route_name |-> "Route 0", sentiment_analysis |-> JsonNull]),
     SummaryRequest(SummaryRoutes, Headlines,
        [route_name |-> "Route 0", resilience_scores |-> JsonNull])}

\* The sentiment scores of a response: above, below and inside [0,1], text
\* that is a number and text that is none, null, NaN, Infinity and
\* -Infinity, a list and a mapping.
SentimentJson ==
    {[float |-> D(3, 2)], [float |-> D(-1, 2)], [float |-> D(3, 10)],
     [str |-> "0.3", number |-> [float |-> D(3, 10)]],
     [str |-> "high"], [null |-> TRUE], [nan |-> TRUE], [inf |-> TRUE], [inf |-> FALSE],
     [array |-> <<[int |-> 1]>>], [a |-> [int |-> 1]]}

RoutesJson == [r \in {"Route 1"} |-> [route_name |-> "Coastal Run"]]

\* The comparison reports of a response: a mapping with a summary that is
\* text, with one that is a number; the empty mapping; text, empty or not;
\* a number; null.
ReportJson ==
    {[summary |-> [str |-> "safer"]], [summary |-> [int |-> 5]], EmptyDict,
     [str |-> "safer"], [str |-> ""], [int |-> 5], JsonNull}

\* The JSON objects of a response: with and without the "routes" key, with
\* a news_sentiment (scored, unscored, null), with a comparison report,
\* with routes that are a list.
SummaryObjects ==
    {[routes |-> RoutesJson], RoutesJson,
     [routes |-> RoutesJson, news_sentiment |-> [risk_factors |-> <<>>]],
     [routes |-> RoutesJson, news_sentiment |-> JsonNull],
     [routes |-> [array |-> <<[int |-> 1]>>]]}
    \cup {[routes |-> RoutesJson, comparison_report |-> c] : c \in ReportJson}
    \cup {[routes |-> RoutesJson, news_sentiment |-> [sentiment_score |-> v]] :
            v \in SentimentJson}

\* generate_content raises (as does response.text), or brings a text.
SummaryBehaviours ==
    {[raises |-> "quota"]}
    \cup {[text |-> [form |-> f]] : f \in {"empty", "prose", "embedded"}}
    \cup {[text |-> [form |-> "json", value |-> [array |-> <<[int |-> 1]>>]]]}
    \cup {[text |-> [form |-> "json", value |-> [object |-> o]]] : o \in SummaryObjects}
    \cup {[text |-> [form |-> f, value |-> [object |-> [routes |-> RoutesJson]]]] :
            f \in {"fenced_json", "fenced"}}

\* What a call of generate_summary meets: a request, a key or none, and
\* what generate_content would do.  Every request meets every behaviour
\* when the call can reach generate_content; without a key, and for a
\* request whose prompt cannot be built, two behaviours stand for all.
UncalledBehaviours ==
    {[raises |-> "quota"],
     [text |-> [form |-> "json", value |-> [object |-> [routes |-> RoutesJson]]]]}

SummaryInputs ==
    {[request |-> r, api_key |-> TRUE, behaviour |-> b] :
        r \in SummaryRequests, b \in SummaryBehaviours}
    \cup {[request |-> r, api_key |-> FALSE, behaviour |-> b] :
        r \in SummaryRequests \cup UnpromptableRequests, b \in UncalledBehaviours}
    \cup {[request |-> r, api_key |-> TRUE, behaviour |-> b] :
        r \in UnpromptableRequests, b \in UncalledBehaviours}

\* Calls of generate_summary one after the other, from no cache file.
MaxCalls == 2

InitSummary ==
    /\ \E input \in SummaryInputs :
        /\ sm_request = [p \in {1} |-> input.request]
        /\ sm_api_key = [p \in {1} |-> input.api_key]
        /\ sm_behaviour = [p \in {1} |-> input.behaviour]
    /\ sm_pc = [p \in {1} |-> "start"]
    /\ sm_cache_data = [p \in {1} |-> EmptyDict]
    /\ sm_source = [p \in {1} |-> "none"]
    /\ sm_llm = [p \in {1} |-> <<>>]
    /\ sm_result = [p \in {1} |-> NoValue]
    /\ sm_dumped = [p \in {1} |-> <<>>]
    /\ cache_file = [content |-> EmptyDict]
    /\ cache_stored = {}
    /\ sm_calls = 1
    /\ NoScoring
    /\ NoAnalysis
    /\ NoSegmentation
    /\ NoWeather
    /\ NoRoads
    /\ NoRun
    /\ NoApi
    /\ NoScorer
    /\ NoNews

\* The next call of generate_summary, once the one before has returned.
SummaryCallAgain ==
    /\ \A p \in DOMAIN sm_pc : sm_pc[p] = "done"
    /\ sm_calls < MaxCalls
    /\ sm_calls' = sm_calls + 1
    /\ \E input \in SummaryInputs :
        /\ sm_request' = [p \in {1} |-> input.request]
        /\ sm_api_key' = [p \in {1} |-> input.api_key]
        /\ sm_behaviour' = [p \in {1} |-> input.behaviour]
    /\ sm_pc' = [p \in {1} |-> "start"]
    /\ sm_cache_data' = [p \in {1} |-> EmptyDict]
    /\ sm_source' = [p \in {1} |-> "none"]
    /\ sm_llm' = [p \in {1} |-> <<>>]
    /\ sm_result' = [p \in {1} |-> NoValue]
    /\ sm_dumped' = [p \in {1} |-> <<>>]
    /\ UNCHANGED <<cache_file, cache_stored>>
    /\ UNCHANGED OtherGroupsOfSummary

NextSummary ==
    \/ SummaryStart
    \/ SummaryGenerate
    \/ SummaryOpenCache
    \/ SummaryDump
    \/ SummaryCallAgain

SpecSummary == InitSummary /\ [][NextSummary]_vars

\* Concurrent calls of generate_summary on one cache file, which is absent
\* or holds the entry of an earlier call.
MaxCallers == 2

ConcurrentRequests ==
    {SummaryRequest(SummaryRoutes, JsonNull, JsonNull),
     SummaryRequest(SummaryRoutes, Headlines, JsonNull)}

ConcurrentBehaviours ==
    {[raises |-> "quota"],
     [text |-> [form |-> "json", value |-> [object |-> [routes |-> RoutesJson]]]]}

EarlierRequest == SummaryRequest(SummaryRoutes, Headlines, [route_name |-> "Route 0"])

EarlierCache ==
    Put(EmptyDict, cache_key(EarlierRequest),
        response_data(EarlierRequest, [routes |-> RoutesJson]))

InitConcurrent ==
    /\ sm_request \in [1..MaxCallers -> ConcurrentRequests]
    /\ sm_api_key = [p \in 1..MaxCallers |-> TRUE]
    /\ sm_behaviour \in [1..MaxCallers -> ConcurrentBehaviours]
    /\ sm_pc = [p \in 1..MaxCallers |-> "start"]
    /\ sm_cache_data = [p \in 1..MaxCallers |-> EmptyDict]
    /\ sm_source = [p \in 1..MaxCallers |-> "none"]
    /\ sm_llm = [p \in 1..MaxCallers |-> <<>>]
    /\ sm_result = [p \in 1..MaxCallers |-> NoValue]
    /\ sm_dumped = [p \in 1..MaxCallers |-> <<>>]
    /\ cache_file \in {[content |-> EmptyDict], [content |-> EarlierCache]}
    /\ cache_stored = entries_of(load_cache(cache_file))
    /\ sm_calls = MaxCallers
    /\ NoScoring
    /\ NoAnalysis
    /\ NoSegmentation
    /\ NoWeather
    /\ NoRoads
    /\ NoRun
    /\ NoApi
    /\ NoScorer
    /\ NoNews

NextConcurrent ==
    \/ SummaryStart
    \/ SummaryGenerate
    \/ SummaryOpenCache
    \/ SummaryDump

SpecConcurrent == InitConcurrent /\ [][NextConcurrent]_vars

(***************************************************************************)
(* Properties of generate_summary                                          *)
(***************************************************************************)
AllReturned == \A p \in DOMAIN sm_pc : sm_pc[p] = "done"

\* C23: under any interleaving of concurrent calls of generate_summary, once
\* all calls have returned, the cache holds an entry for the key of every
\* call that returned a fresh response, and an entry for every key it has
\* held an entry for before (the race costs no more than a redundant
\* overwrite of one key).
C23_CacheKeepsEntries ==
    AllReturned =>
        /\ \A p \in DOMAIN sm_pc :
              sm_source[p] = "llm" =>
                  cache_key(sm_request[p]) \in DOMAIN load_cache(cache_file)
        /\ \A e \in cache_stored : e.key \in DOMAIN load_cache(cache_file)

SentimentInRange(result) ==
    /\ "sentiment_score" \in DOMAIN result.news_sentiment
    /\ \/ /\ "float" \in DOMAIN result.news_sentiment.sentiment_score
          /\ FLe(FZero, result.news_sentiment.sentiment_score.float)
          /\ FLe(result.news_sentiment.sentiment_score.float, FromInt(1))
       \/ /\ "int" \in DOMAIN result.news_sentiment.sentiment_score
          /\ result.news_sentiment.sentiment_score.int \in 0..1

\* C24: every result generate_summary returns (fresh, cached or fallback,
\* with or without news articles) carries a news_sentiment.sentiment_score
\* within [0,1], whatever sentiment the LLM returned.
C24_SentimentInRange ==
    \A p \in DOMAIN sm_pc : sm_pc[p] = "done" => SentimentInRange(sm_result[p])

\* An LLM error or a response that json.loads cannot parse
BadResponse(behaviour) ==
    "raises" \in DOMAIN behaviour \/ behaviour.text.form \in {"empty", "prose", "embedded"}

\* routes = {}, neutral sentiment 0.5, no comparison report
IsFallback(result) ==
    /\ DOMAIN result.routes = {}
    /\ "sentiment_score" \in DOMAIN result.news_sentiment
    /\ result.news_sentiment.sentiment_score = [float |-> D(1, 2)]
    /\ IsNone(result.comparison_report)

\* C26: a call of generate_summary calls the LLM at most once, and only with
\* its key absent from the cache; a hit returns the entry as stored; without
\* an API key, after an LLM error or after an unparseable response it
\* returns the fallback and dumps nothing; what a call dumps is the cache
\* with its successfully parsed response under its key; and nothing but a
\* dump changes the cache.
C26_OneCallCacheOnlyParsed ==
    \A p \in DOMAIN sm_pc :
        /\ Len(sm_llm[p]) <= 1
        /\ Len(sm_dumped[p]) <= 1
        /\ (sm_pc[p] = "start") => sm_llm[p] = <<>>
        /\ (sm_llm[p] # <<>> /\ sm_pc[p] # "dump" /\ sm_dumped[p] = <<>>) =>
              cache_key(sm_request[p]) \notin DOMAIN load_cache(cache_file)
        /\ (sm_source[p] = "cache") =>
              /\ sm_llm[p] = <<>>
              /\ sm_dumped[p] = <<>>
              /\ cache_key(sm_request[p]) \in DOMAIN load_cache(cache_file)
              /\ sm_result[p] = load_cache(cache_file)[cache_key(sm_request[p])]
        /\ (sm_pc[p] = "done" /\ (~sm_api_key[p] \/ (sm_llm[p] # <<>> /\ BadResponse(sm_llm[p][1])))) =>
              sm_source[p] = "fallback"
        /\ (sm_source[p] = "fallback") =>
              /\ IsFallback(sm_result[p])
              /\ sm_dumped[p] = <<>>
        /\ (sm_dumped[p] # <<>>) =>
              /\ sm_llm[p] # <<>>
              /\ ~BadResponse(sm_llm[p][1])
              /\ ~IsFallback(sm_result[p])
              /\ cache_key(sm_request[p]) \in DOMAIN sm_dumped[p][1]
              /\ sm_dumped[p][1][cache_key(sm_request[p])] = sm_result[p]
        /\ (sm_pc[p] # "dump") => entries_of(load_cache(cache_file)) = cache_stored

\* The second call has returned the fallback after a response that does not
\* parse, and the entry of the first call is still the cache.
C26_Witness ==
    /\ sm_calls = 2
    /\ sm_pc[1] = "done"
    /\ sm_source[1] = "fallback"
    /\ Len(sm_llm[1]) = 1
    /\ BadResponse(sm_llm[1][1])
    /\ cache_stored # {}
    /\ entries_of(load_cache(cache_file)) = cache_stored

(***************************************************************************)
(* news_analysis.fetch_route_news and its in-memory cache                  *)
(***************************************************************************)
\* A string is the sequence of its characters; these are the characters of
\* the city names in Python's order (by code point).
CharOrder == <<" ", "G", "P", "_", "a", "e", "g", "n", "o", "p", "u">>

char_rank(c) == CHOOSE i \in 1..Len(CharOrder) : CharOrder[i] = c

lower_char(c) == IF c = "G" THEN "g" ELSE IF c = "P" THEN "p" ELSE c

\* str.lower()
lower(str) == [i \in 1..Len(str) |-> lower_char(str[i])]

RECURSIVE lstrip(_)
lstrip(str) ==
    IF str # <<>> /\ Head(str) = " " THEN lstrip(Tail(str)) ELSE str

RECURSIVE rstrip(_)
rstrip(str) ==
    IF str # <<>> /\ str[Len(str)] = " " THEN rstrip(SubSeq(str, 1, Len(str) - 1)) ELSE str

\* str.strip()
strip(str) == rstrip(lstrip(str))

\* a < b on strings
RECURSIVE str_less(_, _)
str_less(a, b) ==
    IF b = <<>> THEN FALSE
    ELSE IF a = <<>> THEN TRUE
    ELSE IF Head(a) # Head(b) THEN char_rank(Head(a)) < char_rank(Head(b))
    ELSE str_less(Tail(a), Tail(b))

RECURSIVE insert_str(_, _)
insert_str(sorted_seq, x) ==
    IF sorted_seq = <<>> THEN <<x>>
    ELSE IF str_less(x, Head(sorted_seq)) THEN <<x>> \o sorted_seq
    ELSE <<Head(sorted_seq)>> \o insert_str(Tail(sorted_seq), x)

\* sorted(strs)
RECURSIVE sorted_strs(_)
sorted_strs(strs) ==
    IF strs = <<>> THEN <<>>
    ELSE insert_str(sorted_strs(SubSeq(strs, 1, Len(strs) - 1)), strs[Len(strs)])

\* sep.join(strs)
RECURSIVE join(_, _)
join(sep, strs) ==
    IF strs = <<>> THEN <<>>
    ELSE IF Len(strs) = 1 THEN strs[1]
    ELSE strs[1] \o sep \o join(sep, Tail(strs))

get_cache_key(cities) ==
    join(<<"_">>, sorted_strs([i \in 1..Len(cities) |-> strip(lower(cities[i]))]))

CACHE_DURATION_HOURS == 1

is_cache_valid(cache_entry, now) ==
    /\ "timestamp" \in DOMAIN cache_entry
    /\ now - cache_entry.timestamp < CACHE_DURATION_HOURS

\* The four mock articles: two name cities of the request, two are a day
\* and two days old.
get_mock_news(cities, now) ==
    <<[uuid |-> "mock-1", cities |-> SubSeq(cities, 1, IF Len(cities) < 2 THEN Len(cities) ELSE 2),
       published_at |-> now],
      [uuid |-> "mock-2", published_at |-> now],
      [uuid |-> "mock-3", cities |-> SubSeq(cities, 1, 1), published_at |-> now - 24],
      [uuid |-> "mock-4", published_at |-> now - 48]>>

\* What the news API answers to the request for the cities and to the
\* broader request.
api_articles(cities, now) == <<[uuid |-> "news", cities |-> cities, published_at |-> now]>>

india_articles(now) == <<[uuid |-> "india", published_at |-> now]>>

\* The entry fetch_route_news writes under the cache key.
cache_entry_of(articles, now) == [timestamp |-> now, articles |-> articles]

\* "if use_cache and cache_key in _news_cache" with a valid entry.
cache_hit(cities, use_cache, now, cache) ==
    /\ use_cache
    /\ get_cache_key(cities) \in DOMAIN cache
    /\ is_cache_valid(cache[get_cache_key(cities)], now)

\* Inputs: two cities; the same two in the other order, in other case and
\* with a blank; one city whose name has an underscore; one of the two.
Goa == <<"G", "o", "a">>
Pune == <<"P", "u", "n", "e">>

NewsCityLists ==
    {<<>>, <<Pune, Goa>>,
     <<<<"g", "o", "a", " ">>, <<"p", "u", "n", "e">>>>,
     <<<<"g", "o", "a", "_", "p", "u", "n", "e">>>>,
     <<Pune>>}

\* What a requests.get call does: it brings articles, brings none, or
\* raises (as does raise_for_status).
NewsResponses == {"articles", "empty", "raises"}

\* The arguments of a call and whether NEWS_API_KEY is set.
NewsArgs(city_lists) ==
    [cities : city_lists, use_cache : BOOLEAN, api_key : BOOLEAN, now : {0}]

OtherGroupsOfNews == <<scoring_vars, analysis_vars, seg_vars, weather_vars, road_vars, run_vars, api_vars, scorer_vars, summary_vars>>

\* The call returns articles by the return statement path.
news_returns(c, path, articles) ==
    /\ news_path' = [news_path EXCEPT ![c] = path]
    /\ news_result' = [news_result EXCEPT ![c] = articles]
    /\ news_pc' = [news_pc EXCEPT ![c] = "done"]

\* "_news_cache[cache_key] = {...}" and the return of the articles.
news_stores(c, articles) ==
    /\ news_cache' = Put(news_cache, get_cache_key(news_args[c].cities),
                         cache_entry_of(articles, news_clock))
    /\ news_entry_for' = Put(news_entry_for, get_cache_key(news_args[c].cities),
                             news_args[c].cities)
    /\ news_stored' = [news_stored EXCEPT ![c] = cache_entry_of(articles, news_clock)]
    /\ news_returns(c, "fetched", articles)

\* fetch_route_news(cities, use_cache=use_cache) up to the first
\* requests.get: no cities, a cache hit and a missing API key return.
FetchRouteNews ==
    /\ \E c \in DOMAIN news_pc :
        /\ news_pc[c] = "start"
        /\ news_args' = [news_args EXCEPT ![c].now = news_clock]
        /\ news_before' = [news_before EXCEPT ![c] =
                              [cache |-> news_cache, stored_by |-> news_entry_for]]
        /\ IF news_args[c].cities = <<>>
           THEN news_returns(c, "no_cities", <<>>)
           ELSE IF cache_hit(news_args[c].cities, news_args[c].use_cache, news_clock, news_cache)
           THEN news_returns(c, "hit", news_cache[get_cache_key(news_args[c].cities)].articles)
           ELSE IF ~news_args[c].api_key
           THEN news_returns(c, "no_key", get_mock_news(news_args[c].cities, news_clock))
           ELSE /\ news_pc' = [news_pc EXCEPT ![c] = "_fetch_from_api"]
                /\ UNCHANGED <<news_path, news_result>>
    /\ UNCHANGED <<news_cache, news_clock, news_entry_for, news_calls, news_responses, news_stored>>
    /\ UNCHANGED OtherGroupsOfNews

\* requests.get of _fetch_from_api returns or raises: articles are stored
\* and returned, an exception gives the mock articles, and with no article
\* fetch_route_news goes on to _fetch_india_news.
FetchFromApi ==
    /\ \E c \in DOMAIN news_pc, response \in NewsResponses :
        /\ news_pc[c] = "_fetch_from_api"
        /\ news_responses' = [news_responses EXCEPT ![c] = Append(@, response)]
        /\ IF response = "raises"
           THEN /\ news_returns(c, "raised", get_mock_news(news_args[c].cities, news_clock))
                /\ UNCHANGED <<news_cache, news_entry_for, news_stored>>
           ELSE IF response = "articles"
           THEN news_stores(c, api_articles(news_args[c].cities, news_clock))
           ELSE /\ news_pc' = [news_pc EXCEPT ![c] = "_fetch_india_news"]
                /\ UNCHANGED <<news_cache, news_entry_for, news_stored, news_path, news_result>>
    /\ UNCHANGED <<news_clock, news_calls, news_args, news_before>>
    /\ UNCHANGED OtherGroupsOfNews

\* requests.get of _fetch_india_news returns or raises: its articles, or
\* the mock articles when it brings none, are stored and returned; an
\* exception gives the mock articles, which are not stored.
FetchIndiaNews ==
    /\ \E c \in DOMAIN news_pc, response \in NewsResponses :
        /\ news_pc[c] = "_fetch_india_news"
        /\ news_responses' = [news_responses EXCEPT ![c] = Append(@, response)]
        /\ IF response = "raises"
           THEN /\ news_returns(c, "raised", get_mock_news(news_args[c].cities, news_clock))
                /\ UNCHANGED <<news_cache, news_entry_for, news_stored>>
           ELSE IF response = "articles"
           THEN news_stores(c, india_articles(news_clock))
           ELSE news_stores(c, get_mock_news(news_args[c].cities, news_clock))
    /\ UNCHANGED <<news_clock, news_calls, news_args, news_before>>
    /\ UNCHANGED OtherGroupsOfNews

\* clear_news_cache() on a cache that holds entries.
ClearNewsCache ==
    /\ DOMAIN news_cache # {}
    /\ news_cache' = EmptyDict
    /\ news_entry_for' = EmptyDict
    /\ UNCHANGED <<news_clock, news_calls, news_pc, news_args, news_before, news_path, news_responses, news_stored, news_result>>
    /\ UNCHANGED OtherGroupsOfNews

\* The hours that pass at most.
MaxHours == 2

\* An hour passes.
HourPasses ==
    /\ news_clock < MaxHours
    /\ news_clock' = news_clock + 1
    /\ UNCHANGED <<news_cache, news_entry_for, news_calls, news_pc, news_args, news_before, news_path, news_responses, news_stored, news_result>>
    /\ UNCHANGED OtherGroupsOfNews

\* The callers begin with these arguments.
news_calls_begin(args) ==
    /\ news_args = args
    /\ news_pc = [c \in DOMAIN args |-> "start"]
    /\ news_before = [c \in DOMAIN args |-> NoValue]
    /\ news_path = [c \in DOMAIN args |-> "none"]
    /\ news_responses = [c \in DOMAIN args |-> <<>>]
    /\ news_stored = [c \in DOMAIN args |-> NoValue]
    /\ news_result = [c \in DOMAIN args |-> NoValue]

\* Calls of fetch_route_news one after the other, from an empty cache.
MaxNewsCalls == 2

InitNews ==
    /\ news_cache = EmptyDict
    /\ news_clock = 0
    /\ news_entry_for = EmptyDict
    /\ news_calls = 1
    /\ \E args \in [{1} -> NewsArgs(NewsCityLists)] : news_calls_begin(args)
    /\ NoScoring
    /\ NoAnalysis
    /\ NoSegmentation
    /\ NoWeather
    /\ NoRoads
    /\ NoRun
    /\ NoApi
    /\ NoScorer
    /\ NoSummary

\* The next call of fetch_route_news, once the one before has returned.
NewsCallAgain ==
    /\ \A c \in DOMAIN news_pc : news_pc[c] = "done"
    /\ news_calls < MaxNewsCalls
    /\ news_calls' = news_calls + 1
    /\ \E args \in [{1} -> NewsArgs(NewsCityLists)] :
        /\ news_args' = args
        /\ news_pc' = [c \in {1} |-> "start"]
        /\ news_before' = [c \in {1} |-> NoValue]
        /\ news_path' = [c \in {1} |-> "none"]
        /\ news_responses' = [c \in {1} |-> <<>>]
        /\ news_stored' = [c \in {1} |-> NoValue]
        /\ news_result' = [c \in {1} |-> NoValue]
    /\ UNCHANGED <<news_cache, news_clock, news_entry_for>>
    /\ UNCHANGED OtherGroupsOfNews

NextNews ==
    \/ FetchRouteNews
    \/ FetchFromApi
    \/ FetchIndiaNews
    \/ ClearNewsCache
    \/ HourPasses
    \/ NewsCallAgain

SpecNews == InitNews /\ [][NextNews]_vars

\* Concurrent calls of fetch_route_news for the two cities, in two
\* spellings, on the cache of the process, within one hour.
MaxNewsCallers == 2

ConcurrentCityLists == {<<Goa, Pune>>, <<Pune, Goa>>}

InitNewsConcurrent ==
    /\ news_cache = EmptyDict
    /\ news_clock = 0
    /\ news_entry_for = EmptyDict
    /\ news_calls = MaxNewsCallers
    /\ \E args \in [1..MaxNewsCallers ->
                      {a \in NewsArgs(ConcurrentCityLists) : a.use_cache /\ a.api_key}] :
          news_calls_begin(args)
    /\ NoScoring
    /\ NoAnalysis
    /\ NoSegmentation
    /\ NoWeather
    /\ NoRoads
    /\ NoRun
    /\ NoApi
    /\ NoScorer
    /\ NoSummary

NextNewsConcurrent ==
    \/ FetchRouteNews
    \/ FetchFromApi
    \/ FetchIndiaNews
    \/ ClearNewsCache

SpecNewsConcurrent == InitNewsConcurrent /\ [][NextNewsConcurrent]_vars

(***************************************************************************)
(* Properties of fetch_route_news                                          *)
(***************************************************************************)
\* The cities of a call, compared without case and surrounding blanks and
\* regardless of order
city_set(cities) == {lower(strip(cities[i])) : i \in 1..Len(cities)}

NewsReturned == {c \in DOMAIN news_pc : news_pc[c] = "done" /\ news_args[c].cities # <<>>}

\* The cache check of the call found an entry under its key that was
\* younger than 1 hour.
FreshEntryBefore(c) ==
    /\ get_cache_key(news_args[c].cities) \in DOMAIN news_before[c].cache
    /\ news_args[c].now
          - news_before[c].cache[get_cache_key(news_args[c].cities)].timestamp < 1

\* The API key is set and the requests of the call brought articles or
\* none, without raising.
FetchSucceeds(c) ==
    /\ news_args[c].api_key
    /\ \A k \in 1..Len(news_responses[c]) : news_responses[c][k] # "raises"

\* The call wrote what it returned to the cache.
StoredResult(c) ==
    /\ news_stored[c] # NoValue
    /\ news_stored[c].articles = news_result[c]
    /\ news_stored[c].timestamp >= news_args[c].now

\* C29 apart from whose entry a hit returns: a call with use_cache returns
\* the entry under its key without a request when that entry is younger
\* than 1 hour, and only then; an expired entry is replaced by the result of
\* a new fetch; the mock articles of a missing key or a failed fetch are not
\* stored; without use_cache the cache is not read and the result is stored.
NewsCacheDiscipline ==
    \A c \in NewsReturned :
        /\ (news_path[c] = "hit") <=> (news_args[c].use_cache /\ FreshEntryBefore(c))
        /\ (news_path[c] = "hit") =>
              /\ news_responses[c] = <<>>
              /\ news_result[c] =
                    news_before[c].cache[get_cache_key(news_args[c].cities)].articles
              /\ news_stored[c] = NoValue
        /\ (news_path[c] # "hit" /\ FetchSucceeds(c)) =>
              /\ Len(news_responses[c]) >= 1
              /\ news_path[c] = "fetched"
              /\ StoredResult(c)
        /\ (news_path[c] # "hit" /\ ~FetchSucceeds(c)) =>
              /\ news_path[c] \in {"no_key", "raised"}
              /\ news_result[c][1].uuid = "mock-1"
              /\ news_stored[c] = NoValue
              /\ news_args[c].api_key <=> Len(news_responses[c]) >= 1

\* A write to the cache is the store of a call that fetched.
NewsWritesAreStores ==
    [][\A k \in DOMAIN news_cache' :
          (k \notin DOMAIN news_cache \/ news_cache'[k] # news_cache[k]) =>
              \E c \in DOMAIN news_pc :
                  /\ news_pc[c] # "done" /\ news_pc'[c] = "done"
                  /\ news_path'[c] = "fetched"
                  /\ k = get_cache_key(news_args[c].cities)
                  /\ news_cache'[k] = news_stored'[c]]_vars

\* C29: with use_cache, fetch_route_news returns a stored entry without
\* calling the news API only when an entry exists for the same set of cities
\* (without case, regardless of order) that is younger than 1 hour; an
\* expired entry leads to a new fetch whose result replaces it; mock
\* articles of a missing key or a failed fetch are never stored; and
\* use_cache = false skips the read but still stores the fetched result.
C29_NewsCache ==
    /\ NewsCacheDiscipline
    /\ \A c \in NewsReturned :
          (news_path[c] = "hit") =>
              city_set(news_before[c].stored_by[get_cache_key(news_args[c].cities)])
                  = city_set(news_args[c].cities)
====
